---- MODULE Spec2Model ----
(***************************************************************************)
(* Model of the meta-staking-pool instruction processor                    *)
(* (program/src/processor.rs) together with the program entrypoint         *)
(* (program/src/entrypoint.rs).                                            *)
(*                                                                         *)
(* The persisted records (StakePool, ValidatorStakeList), the pooled stake *)
(* accounts and the balances of the pool-share mint are the state.  Every  *)
(* handler is an operator from (world, accounts/arguments) to a result     *)
(* holding the error it returns and the world as the handler left it at    *)
(* the moment it returned; the entrypoint hands the error to the runtime,  *)
(* which keeps the handler's writes only when the instruction returned Ok. *)
(*                                                                         *)
(* u64 values are modelled with a reduced width (U64_MAX); the 128-bit     *)
(* intermediates keep the relation U128_MAX = (U64_MAX+1)^2 - 1.           *)
(***************************************************************************)
EXTENDS Integers, Sequences, FiniteSets, TLC

VARIABLES pool, list, stake, token, epoch, liq, last

vars == <<pool, list, stake, token, epoch, liq, last>>

(***************************************************************************)
(* Bounds of the model                                                     *)
(***************************************************************************)
\* largest value of the (scaled) unsigned 64-bit integers
U64_MAX == 32767
\* largest number of lamports a single externally prepared stake account holds
MaxStake == 2
\* all lamports that can ever sit in pooled stake accounts (the ledger's
\* supply of native value is far below U64_MAX)
MaxLamports == 3
\* last ledger epoch the model explores
MaxEpoch == 1
\* largest share supply and largest pool totals from which the model goes on
MaxShares == 2

U128_MAX == (U64_MAX + 1) * (U64_MAX + 1) - 1

\* the absent value of Option<u64>
None == -1

(***************************************************************************)
(* Identifiers                                                             *)
(***************************************************************************)
Validators == {"v1", "v2"}

STAKE_PROGRAM == "stake_program"
TOKEN_PROGRAM == "token_program"
SYSTEM_PROGRAM == "system_program"
\* lib.rs: declare_id!
PROGRAM_ID == "meta_pool_program"
PROGRAM_VERSION == 1

POOL_KEY == "pool"
LIST_KEY == "validator_list"
OTHER_LIST_KEY == "other_list"

POOL_MINT == "pool_mint"
FOREIGN_MINT == "foreign_mint"
LP_MINT == "lp_mint"
BLANK_ACCOUNT == "program_owned_blank"

FEE_ACCOUNT == "fee_token_account"
USER_TOKEN == "user_token_account"
FOREIGN_TOKEN == "foreign_token_account"
LP_RESERVE == "lp_wsol_reserve"

OWNER == "owner"
USER == "user"

NO_KEY == "none"

AUTHORITY_DEPOSIT == "deposit"
AUTHORITY_WITHDRAW == "withdraw"

BumpSeeds == {254, 255}

(***************************************************************************)
(* Program-derived addresses                                               *)
(***************************************************************************)
\* Pubkey::create_program_address: fails when the hash lands on the curve
OnCurve(authority_type, bump_seed) ==
    authority_type = AUTHORITY_DEPOSIT /\ bump_seed = 255

authority_id(authority_type, bump_seed) ==
    IF OnCurve(authority_type, bump_seed) \/ bump_seed \notin BumpSeeds
    THEN NO_KEY
    ELSE CASE authority_type = AUTHORITY_DEPOSIT /\ bump_seed = 254 -> "pda_deposit_254"
           [] authority_type = AUTHORITY_WITHDRAW /\ bump_seed = 255 -> "pda_withdraw_255"
           [] authority_type = AUTHORITY_WITHDRAW /\ bump_seed = 254 -> "pda_withdraw_254"
           [] OTHER -> NO_KEY

\* Pubkey::find_program_address: the highest bump seed that is off the curve
find_authority_bump_seed(authority_type) ==
    LET bump == CHOOSE b \in BumpSeeds :
                   /\ ~OnCurve(authority_type, b)
                   /\ \A c \in BumpSeeds : ~OnCurve(authority_type, c) => c <= b
    IN  <<authority_id(authority_type, bump), bump>>

check_authority(authority_to_check, authority_type, bump_seed) ==
    IF authority_id(authority_type, bump_seed) = NO_KEY THEN "InvalidProgramAddress"
    ELSE IF authority_to_check # authority_id(authority_type, bump_seed) THEN "InvalidProgramAddress"
    ELSE "Ok"

\* the stake account address derived for (validator, pool)
find_stake_address_for_validator(validator) ==
    CASE validator = "v1" -> "stake_v1"
      [] validator = "v2" -> "stake_v2"
      [] OTHER -> NO_KEY

DerivedStakeKeys == {find_stake_address_for_validator(v) : v \in Validators}
USER_STAKE == "user_stake"

DEPOSIT_AUTHORITY == find_authority_bump_seed(AUTHORITY_DEPOSIT)[1]
WITHDRAW_AUTHORITY == find_authority_bump_seed(AUTHORITY_WITHDRAW)[1]

AuthorityKeys == {"pda_deposit_254", "pda_withdraw_255", "pda_withdraw_254", USER}

(***************************************************************************)
(* Exchange-rate arithmetic                                                *)
(***************************************************************************)
checked_mul128(a, b) == IF a * b > U128_MAX THEN None ELSE a * b

try_u64(x) == IF x = None \/ x > U64_MAX THEN None ELSE x

\* u64 `+=` and `-=`: the build either wraps or panics on overflow
wrapping_add(a, b) == (a + b) % (U64_MAX + 1)
wrapping_sub(a, b) == (a - b + U64_MAX + 1) % (U64_MAX + 1)

\* processor.rs proportional: amount * numerator / denominator, identity on a
\* zero denominator
proportional(amount, numerator, denominator) ==
    IF denominator = 0 THEN amount
    ELSE IF checked_mul128(amount, numerator) = None THEN None
    ELSE try_u64(checked_mul128(amount, numerator) \div denominator)

value_from_shares(shares, total_value, total_shares) ==
    proportional(shares, total_value, total_shares)

shares_from_value(value, total_value, total_shares) ==
    proportional(value, total_shares, total_value)

(***************************************************************************)
(* StakePool and ValidatorStakeList records (state.rs)                     *)
(***************************************************************************)
Fee(n, d) == [numerator |-> n, denominator |-> d]

ZeroPool ==
    [version |-> 0, owner |-> NO_KEY, owner_fee_account |-> NO_KEY,
     pool_mint |-> NO_KEY, token_program_id |-> NO_KEY,
     validator_stake_list |-> NO_KEY,
     deposit_bump_seed |-> 0, withdraw_bump_seed |-> 0,
     pool_total |-> 0, stake_total |-> 0, last_update_epoch |-> 0,
     fee |-> Fee(0, 0)]

VALIDATOR_STAKE_LIST_VERSION == 1

\* largest number of entries a list account is sized for
MAX_VALIDATORS == 2

\* a list account as created: zeroed, with room for max_validators entries
ZeroList == [version |-> 0, validators |-> <<>>, max_validators |-> MAX_VALIDATORS]

ValidatorStakeInfo(validator, balance, e) ==
    [validator_account |-> validator, balance |-> balance, last_update_epoch |-> e]

is_initialized(record) == record.version > 0

\* StakePool::check_owner
check_owner(stake_pool, owner_info) ==
    IF owner_info.key # stake_pool.owner THEN "WrongOwner"
    ELSE IF ~owner_info.is_signer THEN "SignatureMissing"
    ELSE "Ok"

check_authority_withdraw(stake_pool, authority_to_check) ==
    check_authority(authority_to_check, AUTHORITY_WITHDRAW, stake_pool.withdraw_bump_seed)

check_authority_deposit(stake_pool, authority_to_check) ==
    check_authority(authority_to_check, AUTHORITY_DEPOSIT, stake_pool.deposit_bump_seed)

\* stakeToShares: floor(stake_lamports * pool_total / stake_total), identity
\* while stake_total is zero
calc_pool_deposit_amount(stake_pool, stake_lamports) ==
    IF stake_pool.stake_total = 0 THEN stake_lamports
    ELSE try_u64(checked_mul128(stake_lamports, stake_pool.pool_total)
                     \div stake_pool.stake_total)

calc_pool_withdraw_amount(stake_pool, stake_lamports) ==
    IF stake_pool.stake_total = 0 THEN stake_lamports
    ELSE try_u64(checked_mul128(stake_lamports, stake_pool.pool_total)
                     \div stake_pool.stake_total)

\* sharesToStake: floor(pool_tokens * stake_total / pool_total), identity
\* while pool_total is zero
calc_lamports_amount(stake_pool, pool_tokens) ==
    IF stake_pool.pool_total = 0 THEN pool_tokens
    ELSE try_u64(checked_mul128(pool_tokens, stake_pool.stake_total)
                     \div stake_pool.pool_total)

\* feeAmount: floor(pool_amount * numerator / denominator); a division by
\* zero is a calculation failure
calc_fee_amount(stake_pool, pool_amount) ==
    IF stake_pool.fee.denominator = 0 THEN None
    ELSE try_u64(checked_mul128(pool_amount, stake_pool.fee.numerator)
                     \div stake_pool.fee.denominator)

\* ValidatorStakeList::contains / find_mut (index of the entry, 0 if absent)
contains(validator_stake_list, validator) ==
    \E i \in DOMAIN validator_stake_list.validators :
        validator_stake_list.validators[i].validator_account = validator

find_mut(validator_stake_list, validator) ==
    IF contains(validator_stake_list, validator)
    THEN CHOOSE i \in DOMAIN validator_stake_list.validators :
            /\ validator_stake_list.validators[i].validator_account = validator
            /\ \A j \in DOMAIN validator_stake_list.validators :
                  validator_stake_list.validators[j].validator_account = validator => i <= j
    ELSE 0

\* Vec::retain(|item| item.validator_account != validator)
retain_other(validators, validator) ==
    SelectSeq(validators, LAMBDA item : item.validator_account # validator)

(***************************************************************************)
(* Accounts of the collaborating programs                                  *)
(***************************************************************************)
\* program that owns an account
AccountOwner(key) ==
    IF key = BLANK_ACCOUNT THEN PROGRAM_ID ELSE TOKEN_PROGRAM

\* mint of a token account
TokenAccountMint(key) ==
    CASE key = FEE_ACCOUNT -> POOL_MINT
      [] key = USER_TOKEN -> POOL_MINT
      [] key = FOREIGN_TOKEN -> FOREIGN_MINT
      [] key = LP_RESERVE -> "wsol_mint"
      [] OTHER -> NO_KEY

MintAuthority(mint) ==
    CASE mint = POOL_MINT -> WITHDRAW_AUTHORITY
      [] mint = FOREIGN_MINT -> USER
      [] mint = LP_MINT -> "liq_pool_authority"
      [] OTHER -> NO_KEY

\* a stake account: state is "none" (not created), "init" (initialized, not
\* delegated) or "stake" (delegated to voter)
NoStake == [state |-> "none", lamports |-> 0, voter |-> NO_KEY,
            staker |-> NO_KEY, withdrawer |-> NO_KEY]

StakeAccount(lamports, voter, staker, withdrawer) ==
    [state |-> "stake", lamports |-> lamports, voter |-> voter,
     staker |-> staker, withdrawer |-> withdrawer]

\* token accounts of the pool-share mint, and the supply they add up to
PoolTokenAccounts == {USER_TOKEN, FEE_ACCOUNT}

Supply(balances) == balances[USER_TOKEN] + balances[FEE_ACCOUNT]

World == [pool |-> pool, list |-> list, stake |-> stake, token |-> token, liq |-> liq]

\* the account behind a handle: pooled accounts live in the state, any other
\* stake account is supplied by the caller
AccountOf(w, info) ==
    IF info.key \in DerivedStakeKeys THEN w.stake[info.key] ELSE info.data

SetAccount(w, info, account) ==
    IF info.key \in DerivedStakeKeys
    THEN [w EXCEPT !.stake[info.key] = account]
    ELSE w

\* what a handler computed: the validator it resolved and the amounts it
\* passed to the stake and token programs (received: lamports of the stake
\* account handed to the caller)
NoOut == [validator |-> NO_KEY, stake_lamports |-> 0, pool_amount |-> 0,
          fee_amount |-> 0, user_amount |-> 0, stake_amount |-> 0, received |-> 0]

Ret(err, w, out) == [err |-> err, w |-> w, out |-> out]

(***************************************************************************)
(* Cross-program invocations (stake program, token program)                *)
(***************************************************************************)
\* invoke_signed: the seeds [base, authority_type, bump] sign for a key only
\* when they derive exactly that key from the pool's address
signs_for(key, seed_base, authority_type, bump_seed) ==
    /\ seed_base = POOL_KEY
    /\ authority_id(authority_type, bump_seed) # NO_KEY
    /\ key = authority_id(authority_type, bump_seed)

\* stake::authorize through Processor::stake_authorize; returns the error
\* and the account afterwards
stake_authorize(account, authority, authority_type, bump_seed, new_staker, staker_auth) ==
    IF ~signs_for(authority, POOL_KEY, authority_type, bump_seed)
    THEN [err |-> "MissingRequiredSignature", account |-> account]
    ELSE IF account.state = "none"
    THEN [err |-> "InvalidAccountData", account |-> account]
    ELSE IF staker_auth = "Withdrawer"
    THEN IF account.withdrawer # authority
         THEN [err |-> "MissingRequiredSignature", account |-> account]
         ELSE [err |-> "Ok", account |-> [account EXCEPT !.withdrawer = new_staker]]
    ELSE IF account.staker # authority /\ account.withdrawer # authority
         THEN [err |-> "MissingRequiredSignature", account |-> account]
         ELSE [err |-> "Ok", account |-> [account EXCEPT !.staker = new_staker]]

\* stake::split_only through Processor::stake_split
stake_split(account, authority, authority_type, bump_seed, amount) ==
    IF ~signs_for(authority, POOL_KEY, authority_type, bump_seed)
    THEN [err |-> "MissingRequiredSignature", account |-> account, split |-> NoStake]
    ELSE IF account.state # "stake"
    THEN [err |-> "InvalidAccountData", account |-> account, split |-> NoStake]
    ELSE IF account.staker # authority
    THEN [err |-> "MissingRequiredSignature", account |-> account, split |-> NoStake]
    ELSE IF amount > account.lamports
    THEN [err |-> "InsufficientFunds", account |-> account, split |-> NoStake]
    ELSE [err |-> "Ok",
          account |-> [account EXCEPT !.lamports = account.lamports - amount],
          split |-> [account EXCEPT !.lamports = amount]]

\* stake::merge through Processor::stake_merge: the source is drained into
\* merge_with
stake_merge(source, authority, authority_type, bump_seed, merge_with) ==
    IF ~signs_for(authority, POOL_KEY, authority_type, bump_seed)
    THEN [err |-> "MissingRequiredSignature", merge_with |-> merge_with]
    ELSE IF source.state # "stake" \/ merge_with.state # "stake"
    THEN [err |-> "InvalidAccountData", merge_with |-> merge_with]
    ELSE IF \/ source.staker # authority
            \/ merge_with.staker # authority
            \/ source.withdrawer # merge_with.withdrawer
    THEN [err |-> "MissingRequiredSignature", merge_with |-> merge_with]
    ELSE IF source.voter # merge_with.voter
    THEN [err |-> "MergeMismatch", merge_with |-> merge_with]
    ELSE [err |-> "Ok",
          merge_with |-> [merge_with EXCEPT
                             !.lamports = merge_with.lamports + source.lamports]]

token_mint_to_mut(w, seed_base, mint, destination, authority, authority_type, bump_seed, amount) ==
    IF ~signs_for(authority, seed_base, authority_type, bump_seed)
    THEN [err |-> "MissingRequiredSignature", w |-> w]
    ELSE IF TokenAccountMint(destination) # mint
    THEN [err |-> "MintMismatch", w |-> w]
    ELSE IF MintAuthority(mint) # authority
    THEN [err |-> "OwnerMismatch", w |-> w]
    ELSE IF mint # POOL_MINT
    THEN [err |-> "Ok", w |-> w]
    ELSE IF Supply(w.token) + amount > U64_MAX
    THEN [err |-> "Overflow", w |-> w]
    ELSE [err |-> "Ok", w |-> [w EXCEPT !.token[USER_TOKEN] = @ + amount]]

\* spl_token mint_to through Processor::token_mint_to; returns the error
\* and the world afterwards
token_mint_to(w, seed_base, mint, destination, authority, authority_type, bump_seed, amount) ==
    IF ~signs_for(authority, seed_base, authority_type, bump_seed)
    THEN [err |-> "MissingRequiredSignature", w |-> w]
    ELSE IF TokenAccountMint(destination) # mint
    THEN [err |-> "MintMismatch", w |-> w]
    ELSE IF MintAuthority(mint) # authority
    THEN [err |-> "OwnerMismatch", w |-> w]
    ELSE IF mint # POOL_MINT
    THEN [err |-> "Ok", w |-> w]
    ELSE IF Supply(w.token) + amount > U64_MAX
    THEN [err |-> "Overflow", w |-> w]
    ELSE [err |-> "Ok", w |-> [w EXCEPT !.token[destination] = @ + amount]]

\* spl_token burn through Processor::token_burn.  The holder of a share
\* account has delegated it to the pool's withdraw authority; tokens of a
\* mint of their own the caller holds without limit.
token_burn(w, burn_account, mint, authority, authority_type, bump_seed, amount) ==
    IF ~signs_for(authority, POOL_KEY, authority_type, bump_seed)
    THEN [err |-> "MissingRequiredSignature", w |-> w]
    ELSE IF TokenAccountMint(burn_account) # mint
    THEN [err |-> "MintMismatch", w |-> w]
    ELSE IF mint # POOL_MINT
    THEN [err |-> "Ok", w |-> w]
    ELSE IF amount > w.token[burn_account]
    THEN [err |-> "InsufficientFunds", w |-> w]
    ELSE [err |-> "Ok", w |-> [w EXCEPT !.token[burn_account] = @ - amount]]

\* ValidatorStakeList::serialize into the list account, which holds the number
\* of entries it was sized for when it was created
serialize_list(validator_stake_list) ==
    IF Len(validator_stake_list.validators) > validator_stake_list.max_validators
    THEN "AccountDataTooSmall" ELSE "Ok"

\* Processor::get_validator
get_validator(account) ==
    IF account.state = "stake" THEN [err |-> "Ok", validator |-> account.voter]
    ELSE IF account.state = "init" THEN [err |-> "WrongStakeState", validator |-> NO_KEY]
    ELSE [err |-> "InvalidAccountData", validator |-> NO_KEY]

is_validator_stake_address(validator_account, stake_account_key) ==
    find_stake_address_for_validator(validator_account) = stake_account_key

\* Processor::get_validator_checked
get_validator_checked(stake_account_key, account) ==
    IF get_validator(account).err # "Ok" THEN get_validator(account)
    ELSE IF ~is_validator_stake_address(get_validator(account).validator, stake_account_key)
    THEN [err |-> "InvalidStakeAccountAddress", validator |-> NO_KEY]
    ELSE get_validator(account)

\* Processor::check_stake_activation: the check is commented out
check_stake_activation(account) == "Ok"

(***************************************************************************)
(* Instruction handlers.  Each returns Ret(error, world as left by the     *)
(* handler when it returned, outputs).                                     *)
(***************************************************************************)
\* process_initialize without the comparison of the fee's numerator with its
\* denominator
process_initialize_mut(w, a, clock_epoch) ==
    LET validator_stake_list == [w.list EXCEPT !.version = VALIDATOR_STAKE_LIST_VERSION,
                                              !.validators = <<>>]
        w1 == [w EXCEPT !.list = validator_stake_list]
        stake_pool == [w.pool EXCEPT
                          !.version = PROGRAM_VERSION,
                          !.owner = a.owner_info.key,
                          !.deposit_bump_seed = find_authority_bump_seed(AUTHORITY_DEPOSIT)[2],
                          !.withdraw_bump_seed = find_authority_bump_seed(AUTHORITY_WITHDRAW)[2],
                          !.validator_stake_list = a.validator_stake_list_info,
                          !.pool_mint = a.pool_mint_info,
                          !.owner_fee_account = a.owner_fee_info,
                          !.token_program_id = a.token_program_info,
                          !.last_update_epoch = clock_epoch,
                          !.fee = a.fee]
    IN
    IF ~a.owner_info.is_signer THEN Ret("SignatureMissing", w, NoOut)
    ELSE IF is_initialized(w.pool) THEN Ret("AlreadyInUse", w, NoOut)
    ELSE IF is_initialized(w.list) THEN Ret("AlreadyInUse", w, NoOut)
    ELSE IF ~a.pool_rent_exempt THEN Ret("AccountNotRentExempt", w, NoOut)
    ELSE IF ~a.list_rent_exempt THEN Ret("AccountNotRentExempt", w, NoOut)
    ELSE IF AccountOwner(a.owner_fee_info) # a.token_program_info
    THEN Ret("InvalidFeeAccount", w, NoOut)
    ELSE IF AccountOwner(a.pool_mint_info) # a.token_program_info
    THEN Ret("IncorrectProgramId", w, NoOut)
    ELSE IF a.pool_mint_info # TokenAccountMint(a.owner_fee_info)
    THEN Ret("WrongAccountMint", w, NoOut)
    ELSE IF MintAuthority(a.pool_mint_info) # find_authority_bump_seed(AUTHORITY_WITHDRAW)[1]
    THEN Ret("WrongMintingAuthority", w, NoOut)
    ELSE Ret("Ok", [w1 EXCEPT !.pool = stake_pool], NoOut)

\* process_initialize without the check that the pool record is uninitialized
process_initialize_again(w, a, clock_epoch) ==
    LET validator_stake_list == [w.list EXCEPT !.version = VALIDATOR_STAKE_LIST_VERSION,
                                              !.validators = <<>>]
        w1 == [w EXCEPT !.list = validator_stake_list]
        stake_pool == [w.pool EXCEPT
                          !.version = PROGRAM_VERSION,
                          !.owner = a.owner_info.key,
                          !.deposit_bump_seed = find_authority_bump_seed(AUTHORITY_DEPOSIT)[2],
                          !.withdraw_bump_seed = find_authority_bump_seed(AUTHORITY_WITHDRAW)[2],
                          !.validator_stake_list = a.validator_stake_list_info,
                          !.pool_mint = a.pool_mint_info,
                          !.owner_fee_account = a.owner_fee_info,
                          !.token_program_id = a.token_program_info,
                          !.last_update_epoch = clock_epoch,
                          !.fee = a.fee]
    IN
    IF ~a.owner_info.is_signer THEN Ret("SignatureMissing", w, NoOut)
    ELSE IF is_initialized(w.list) THEN Ret("AlreadyInUse", w, NoOut)
    ELSE IF ~a.pool_rent_exempt THEN Ret("AccountNotRentExempt", w, NoOut)
    ELSE IF ~a.list_rent_exempt THEN Ret("AccountNotRentExempt", w, NoOut)
    ELSE IF a.fee.numerator > a.fee.denominator THEN Ret("FeeTooHigh", w, NoOut)
    ELSE IF AccountOwner(a.owner_fee_info) # a.token_program_info
    THEN Ret("InvalidFeeAccount", w, NoOut)
    ELSE IF AccountOwner(a.pool_mint_info) # a.token_program_info
    THEN Ret("IncorrectProgramId", w, NoOut)
    ELSE IF a.pool_mint_info # TokenAccountMint(a.owner_fee_info)
    THEN Ret("WrongAccountMint", w, NoOut)
    ELSE IF MintAuthority(a.pool_mint_info) # find_authority_bump_seed(AUTHORITY_WITHDRAW)[1]
    THEN Ret("WrongMintingAuthority", w, NoOut)
    ELSE Ret("Ok", [w1 EXCEPT !.pool = stake_pool], NoOut)

\* process_initialize without the check of the owner's signature
process_initialize_unsigned(w, a, clock_epoch) ==
    LET validator_stake_list == [w.list EXCEPT !.version = VALIDATOR_STAKE_LIST_VERSION,
                                              !.validators = <<>>]
        w1 == [w EXCEPT !.list = validator_stake_list]
        stake_pool == [w.pool EXCEPT
                          !.version = PROGRAM_VERSION,
                          !.owner = a.owner_info.key,
                          !.deposit_bump_seed = find_authority_bump_seed(AUTHORITY_DEPOSIT)[2],
                          !.withdraw_bump_seed = find_authority_bump_seed(AUTHORITY_WITHDRAW)[2],
                          !.validator_stake_list = a.validator_stake_list_info,
                          !.pool_mint = a.pool_mint_info,
                          !.owner_fee_account = a.owner_fee_info,
                          !.token_program_id = a.token_program_info,
                          !.last_update_epoch = clock_epoch,
                          !.fee = a.fee]
    IN
    IF is_initialized(w.pool) THEN Ret("AlreadyInUse", w, NoOut)
    ELSE IF is_initialized(w.list) THEN Ret("AlreadyInUse", w, NoOut)
    ELSE IF ~a.pool_rent_exempt THEN Ret("AccountNotRentExempt", w, NoOut)
    ELSE IF ~a.list_rent_exempt THEN Ret("AccountNotRentExempt", w, NoOut)
    ELSE IF a.fee.numerator > a.fee.denominator THEN Ret("FeeTooHigh", w, NoOut)
    ELSE IF AccountOwner(a.owner_fee_info) # a.token_program_info
    THEN Ret("InvalidFeeAccount", w, NoOut)
    ELSE IF AccountOwner(a.pool_mint_info) # a.token_program_info
    THEN Ret("IncorrectProgramId", w, NoOut)
    ELSE IF a.pool_mint_info # TokenAccountMint(a.owner_fee_info)
    THEN Ret("WrongAccountMint", w, NoOut)
    ELSE IF MintAuthority(a.pool_mint_info) # find_authority_bump_seed(AUTHORITY_WITHDRAW)[1]
    THEN Ret("WrongMintingAuthority", w, NoOut)
    ELSE Ret("Ok", [w1 EXCEPT !.pool = stake_pool], NoOut)

\* Processor::process_initialize
process_initialize(w, a, clock_epoch) ==
    LET validator_stake_list == [w.list EXCEPT !.version = VALIDATOR_STAKE_LIST_VERSION,
                                              !.validators = <<>>]
        w1 == [w EXCEPT !.list = validator_stake_list]
        stake_pool == [w.pool EXCEPT
                          !.version = PROGRAM_VERSION,
                          !.owner = a.owner_info.key,
                          !.deposit_bump_seed = find_authority_bump_seed(AUTHORITY_DEPOSIT)[2],
                          !.withdraw_bump_seed = find_authority_bump_seed(AUTHORITY_WITHDRAW)[2],
                          !.validator_stake_list = a.validator_stake_list_info,
                          !.pool_mint = a.pool_mint_info,
                          !.owner_fee_account = a.owner_fee_info,
                          !.token_program_id = a.token_program_info,
                          !.last_update_epoch = clock_epoch,
                          !.fee = a.fee]
    IN
    IF ~a.owner_info.is_signer THEN Ret("SignatureMissing", w, NoOut)
    ELSE IF is_initialized(w.pool) THEN Ret("AlreadyInUse", w, NoOut)
    ELSE IF is_initialized(w.list) THEN Ret("AlreadyInUse", w, NoOut)
    ELSE IF ~a.pool_rent_exempt THEN Ret("AccountNotRentExempt", w, NoOut)
    ELSE IF ~a.list_rent_exempt THEN Ret("AccountNotRentExempt", w, NoOut)
    ELSE IF a.fee.numerator > a.fee.denominator THEN Ret("FeeTooHigh", w, NoOut)
    ELSE IF AccountOwner(a.owner_fee_info) # a.token_program_info
    THEN Ret("InvalidFeeAccount", w, NoOut)
    ELSE IF AccountOwner(a.pool_mint_info) # a.token_program_info
    THEN Ret("IncorrectProgramId", w, NoOut)
    ELSE IF a.pool_mint_info # TokenAccountMint(a.owner_fee_info)
    THEN Ret("WrongAccountMint", w, NoOut)
    ELSE IF MintAuthority(a.pool_mint_info) # find_authority_bump_seed(AUTHORITY_WITHDRAW)[1]
    THEN Ret("WrongMintingAuthority", w, NoOut)
    ELSE Ret("Ok", [w1 EXCEPT !.pool = stake_pool], NoOut)

process_create_validator_stake_account_mut(w, a) ==
    IF a.system_program_info # SYSTEM_PROGRAM THEN Ret("IncorrectProgramId", w, NoOut)
    ELSE IF a.stake_program_info # STAKE_PROGRAM THEN Ret("IncorrectProgramId", w, NoOut)
    ELSE IF AccountOf(w, a.stake_account_info).state # "none"
    THEN Ret("AccountAlreadyInUse", w, NoOut)
    ELSE Ret("Ok",
             SetAccount(w, a.stake_account_info,
                        [state |-> "init", lamports |-> 1, voter |-> NO_KEY,
                         staker |-> a.stake_authority_info,
                         withdrawer |-> a.withdraw_authority_info]),
             [NoOut EXCEPT !.validator = a.validator_info])

\* Processor::process_create_validator_stake_account
process_create_validator_stake_account(w, a) ==
    IF a.system_program_info # SYSTEM_PROGRAM THEN Ret("IncorrectProgramId", w, NoOut)
    ELSE IF a.stake_program_info # STAKE_PROGRAM THEN Ret("IncorrectProgramId", w, NoOut)
    ELSE IF find_stake_address_for_validator(a.validator_info) # a.stake_account_info.key
    THEN Ret("InvalidStakeAccountAddress", w, NoOut)
    \* system_instruction::create_account fails on an address already in use
    ELSE IF AccountOf(w, a.stake_account_info).state # "none"
    THEN Ret("AccountAlreadyInUse", w, NoOut)
    ELSE Ret("Ok",
             SetAccount(w, a.stake_account_info,
                        [state |-> "init", lamports |-> 1, voter |-> NO_KEY,
                         staker |-> a.stake_authority_info,
                         withdrawer |-> a.withdraw_authority_info]),
             [NoOut EXCEPT !.validator = a.validator_info])

\* u64 `+=` as compiled: panics when the build checks overflow, wraps otherwise
add_assign(x, y, overflow_checks) ==
    IF x + y > U64_MAX /\ overflow_checks THEN None ELSE wrapping_add(x, y)

sub_assign(x, y, overflow_checks) ==
    IF y > x /\ overflow_checks THEN None ELSE wrapping_sub(x, y)

process_add_validator_stake_account_unsized(w, a, clock_epoch) ==
    LET stake_pool_data == w.pool
        account == AccountOf(w, a.stake_account_info)
        validator == get_validator_checked(a.stake_account_info.key, account)
        auth1 == stake_authorize(account, a.deposit_info, AUTHORITY_DEPOSIT,
                                 stake_pool_data.deposit_bump_seed,
                                 a.withdraw_info, "Withdrawer")
        w1 == SetAccount(w, a.stake_account_info, auth1.account)
        auth2 == stake_authorize(auth1.account, a.deposit_info, AUTHORITY_DEPOSIT,
                                 stake_pool_data.deposit_bump_seed,
                                 a.withdraw_info, "Staker")
        w2 == SetAccount(w, a.stake_account_info, auth2.account)
        stake_lamports == account.lamports
        token_amount == calc_pool_deposit_amount(stake_pool_data, stake_lamports)
        mint == token_mint_to(w2, POOL_KEY, a.pool_mint_info, a.dest_user_info,
                              a.withdraw_info, AUTHORITY_WITHDRAW,
                              stake_pool_data.withdraw_bump_seed, token_amount)
        validator_stake_list ==
            [w.list EXCEPT !.validators =
                Append(@, ValidatorStakeInfo(validator.validator, stake_lamports, clock_epoch))]
        w3 == [mint.w EXCEPT !.list = validator_stake_list]
        pool_total == add_assign(stake_pool_data.pool_total, token_amount, a.overflow_checks)
        stake_total == add_assign(stake_pool_data.stake_total, stake_lamports, a.overflow_checks)
        out == [NoOut EXCEPT !.validator = validator.validator,
                             !.stake_lamports = stake_lamports,
                             !.pool_amount = token_amount,
                             !.user_amount = token_amount]
    IN
    IF a.stake_program_info # STAKE_PROGRAM THEN Ret("IncorrectProgramId", w, NoOut)
    ELSE IF ~is_initialized(stake_pool_data) THEN Ret("InvalidState", w, NoOut)
    ELSE IF check_authority_withdraw(stake_pool_data, a.withdraw_info) # "Ok"
    THEN Ret(check_authority_withdraw(stake_pool_data, a.withdraw_info), w, NoOut)
    ELSE IF check_authority_deposit(stake_pool_data, a.deposit_info) # "Ok"
    THEN Ret(check_authority_deposit(stake_pool_data, a.deposit_info), w, NoOut)
    ELSE IF check_owner(stake_pool_data, a.owner_info) # "Ok"
    THEN Ret(check_owner(stake_pool_data, a.owner_info), w, NoOut)
    ELSE IF stake_pool_data.last_update_epoch < clock_epoch
    THEN Ret("StakeListAndPoolOutOfDate", w, NoOut)
    ELSE IF stake_pool_data.token_program_id # a.token_program_info
    THEN Ret("IncorrectProgramId", w, NoOut)
    ELSE IF stake_pool_data.pool_mint # a.pool_mint_info
    THEN Ret("WrongPoolMint", w, NoOut)
    ELSE IF a.validator_stake_list_info # stake_pool_data.validator_stake_list
    THEN Ret("InvalidValidatorStakeList", w, NoOut)
    ELSE IF ~is_initialized(w.list) THEN Ret("InvalidState", w, NoOut)
    ELSE IF validator.err # "Ok" THEN Ret(validator.err, w, NoOut)
    ELSE IF contains(w.list, validator.validator)
    THEN Ret("ValidatorAlreadyAdded", w, NoOut)
    ELSE IF auth1.err # "Ok" THEN Ret(auth1.err, w, NoOut)
    ELSE IF auth2.err # "Ok" THEN Ret(auth2.err, w1, NoOut)
    ELSE IF token_amount = None THEN Ret("CalculationFailure", w2, NoOut)
    ELSE IF mint.err # "Ok" THEN Ret(mint.err, w2, NoOut)
    ELSE IF check_stake_activation(account) # "Ok"
    THEN Ret(check_stake_activation(account), mint.w, NoOut)
    ELSE IF pool_total = None \/ stake_total = None
    THEN Ret("ProgramFailedToComplete", w3, NoOut)
    ELSE Ret("Ok",
             [w3 EXCEPT !.pool = [stake_pool_data EXCEPT !.pool_total = pool_total,
                                                         !.stake_total = stake_total]],
             out)

process_add_validator_stake_account_mut(w, a, clock_epoch) ==
    LET stake_pool_data == w.pool
        account == AccountOf(w, a.stake_account_info)
        validator == get_validator_checked(a.stake_account_info.key, account)
        auth1 == stake_authorize(account, a.deposit_info, AUTHORITY_DEPOSIT,
                                 stake_pool_data.deposit_bump_seed,
                                 a.withdraw_info, "Withdrawer")
        w1 == SetAccount(w, a.stake_account_info, auth1.account)
        auth2 == stake_authorize(auth1.account, a.deposit_info, AUTHORITY_DEPOSIT,
                                 stake_pool_data.deposit_bump_seed,
                                 a.withdraw_info, "Staker")
        w2 == SetAccount(w, a.stake_account_info, auth2.account)
        stake_lamports == account.lamports
        token_amount == calc_pool_deposit_amount(stake_pool_data, stake_lamports)
        mint == token_mint_to(w2, POOL_KEY, a.pool_mint_info, a.dest_user_info,
                              a.withdraw_info, AUTHORITY_WITHDRAW,
                              stake_pool_data.withdraw_bump_seed, token_amount)
        validator_stake_list ==
            [w.list EXCEPT !.validators =
                Append(@, ValidatorStakeInfo(validator.validator, stake_lamports, clock_epoch))]
        w3 == [mint.w EXCEPT !.list = validator_stake_list]
        pool_total == add_assign(stake_pool_data.pool_total, token_amount, a.overflow_checks)
        stake_total == add_assign(stake_pool_data.stake_total, stake_lamports, a.overflow_checks)
        out == [NoOut EXCEPT !.validator = validator.validator,
                             !.stake_lamports = stake_lamports,
                             !.pool_amount = token_amount,
                             !.user_amount = token_amount]
    IN
    IF a.stake_program_info # STAKE_PROGRAM THEN Ret("IncorrectProgramId", w, NoOut)
    ELSE IF ~is_initialized(stake_pool_data) THEN Ret("InvalidState", w, NoOut)
    ELSE IF check_authority_withdraw(stake_pool_data, a.withdraw_info) # "Ok"
    THEN Ret(check_authority_withdraw(stake_pool_data, a.withdraw_info), w, NoOut)
    ELSE IF check_authority_deposit(stake_pool_data, a.deposit_info) # "Ok"
    THEN Ret(check_authority_deposit(stake_pool_data, a.deposit_info), w, NoOut)
    ELSE IF check_owner(stake_pool_data, a.owner_info) # "Ok"
    THEN Ret(check_owner(stake_pool_data, a.owner_info), w, NoOut)
    ELSE IF stake_pool_data.last_update_epoch < clock_epoch
    THEN Ret("StakeListAndPoolOutOfDate", w, NoOut)
    ELSE IF stake_pool_data.token_program_id # a.token_program_info
    THEN Ret("IncorrectProgramId", w, NoOut)
    ELSE IF stake_pool_data.pool_mint # a.pool_mint_info
    THEN Ret("WrongPoolMint", w, NoOut)
    ELSE IF a.validator_stake_list_info # stake_pool_data.validator_stake_list
    THEN Ret("InvalidValidatorStakeList", w, NoOut)
    ELSE IF ~is_initialized(w.list) THEN Ret("InvalidState", w, NoOut)
    ELSE IF validator.err # "Ok" THEN Ret(validator.err, w, NoOut)
    ELSE IF auth1.err # "Ok" THEN Ret(auth1.err, w, NoOut)
    ELSE IF auth2.err # "Ok" THEN Ret(auth2.err, w1, NoOut)
    ELSE IF token_amount = None THEN Ret("CalculationFailure", w2, NoOut)
    ELSE IF mint.err # "Ok" THEN Ret(mint.err, w2, NoOut)
    ELSE IF check_stake_activation(account) # "Ok"
    THEN Ret(check_stake_activation(account), mint.w, NoOut)
    ELSE IF serialize_list(validator_stake_list) # "Ok"
    THEN Ret(serialize_list(validator_stake_list), mint.w, NoOut)
    ELSE IF pool_total = None \/ stake_total = None
    THEN Ret("ProgramFailedToComplete", w3, NoOut)
    ELSE Ret("Ok",
             [w3 EXCEPT !.pool = [stake_pool_data EXCEPT !.pool_total = pool_total,
                                                         !.stake_total = stake_total]],
             out)

\* the add with the two reassignments in the other order: Staker, then Withdrawer
process_add_validator_stake_account_staker_first(w, a, clock_epoch) ==
    LET stake_pool_data == w.pool
        account == AccountOf(w, a.stake_account_info)
        validator == get_validator_checked(a.stake_account_info.key, account)
        auth1 == stake_authorize(account, a.deposit_info, AUTHORITY_DEPOSIT,
                                 stake_pool_data.deposit_bump_seed,
                                 a.withdraw_info, "Staker")
        w1 == SetAccount(w, a.stake_account_info, auth1.account)
        auth2 == stake_authorize(auth1.account, a.deposit_info, AUTHORITY_DEPOSIT,
                                 stake_pool_data.deposit_bump_seed,
                                 a.withdraw_info, "Withdrawer")
        w2 == SetAccount(w, a.stake_account_info, auth2.account)
        stake_lamports == account.lamports
        token_amount == calc_pool_deposit_amount(stake_pool_data, stake_lamports)
        mint == token_mint_to(w2, POOL_KEY, a.pool_mint_info, a.dest_user_info,
                              a.withdraw_info, AUTHORITY_WITHDRAW,
                              stake_pool_data.withdraw_bump_seed, token_amount)
        validator_stake_list ==
            [w.list EXCEPT !.validators =
                Append(@, ValidatorStakeInfo(validator.validator, stake_lamports, clock_epoch))]
        w3 == [mint.w EXCEPT !.list = validator_stake_list]
        pool_total == add_assign(stake_pool_data.pool_total, token_amount, a.overflow_checks)
        stake_total == add_assign(stake_pool_data.stake_total, stake_lamports, a.overflow_checks)
        out == [NoOut EXCEPT !.validator = validator.validator,
                             !.stake_lamports = stake_lamports,
                             !.pool_amount = token_amount,
                             !.user_amount = token_amount]
    IN
    IF a.stake_program_info # STAKE_PROGRAM THEN Ret("IncorrectProgramId", w, NoOut)
    ELSE IF ~is_initialized(stake_pool_data) THEN Ret("InvalidState", w, NoOut)
    ELSE IF check_authority_withdraw(stake_pool_data, a.withdraw_info) # "Ok"
    THEN Ret(check_authority_withdraw(stake_pool_data, a.withdraw_info), w, NoOut)
    ELSE IF check_authority_deposit(stake_pool_data, a.deposit_info) # "Ok"
    THEN Ret(check_authority_deposit(stake_pool_data, a.deposit_info), w, NoOut)
    ELSE IF check_owner(stake_pool_data, a.owner_info) # "Ok"
    THEN Ret(check_owner(stake_pool_data, a.owner_info), w, NoOut)
    ELSE IF stake_pool_data.last_update_epoch < clock_epoch
    THEN Ret("StakeListAndPoolOutOfDate", w, NoOut)
    ELSE IF stake_pool_data.token_program_id # a.token_program_info
    THEN Ret("IncorrectProgramId", w, NoOut)
    ELSE IF stake_pool_data.pool_mint # a.pool_mint_info
    THEN Ret("WrongPoolMint", w, NoOut)
    ELSE IF a.validator_stake_list_info # stake_pool_data.validator_stake_list
    THEN Ret("InvalidValidatorStakeList", w, NoOut)
    ELSE IF ~is_initialized(w.list) THEN Ret("InvalidState", w, NoOut)
    ELSE IF validator.err # "Ok" THEN Ret(validator.err, w, NoOut)
    ELSE IF contains(w.list, validator.validator)
    THEN Ret("ValidatorAlreadyAdded", w, NoOut)
    ELSE IF auth1.err # "Ok" THEN Ret(auth1.err, w, NoOut)
    ELSE IF auth2.err # "Ok" THEN Ret(auth2.err, w1, NoOut)
    ELSE IF token_amount = None THEN Ret("CalculationFailure", w2, NoOut)
    ELSE IF mint.err # "Ok" THEN Ret(mint.err, w2, NoOut)
    ELSE IF check_stake_activation(account) # "Ok"
    THEN Ret(check_stake_activation(account), mint.w, NoOut)
    ELSE IF serialize_list(validator_stake_list) # "Ok"
    THEN Ret(serialize_list(validator_stake_list), mint.w, NoOut)
    ELSE IF pool_total = None \/ stake_total = None
    THEN Ret("ProgramFailedToComplete", w3, NoOut)
    ELSE Ret("Ok",
             [w3 EXCEPT !.pool = [stake_pool_data EXCEPT !.pool_total = pool_total,
                                                         !.stake_total = stake_total]],
             out)

\* Processor::process_add_validator_stake_account
process_add_validator_stake_account(w, a, clock_epoch) ==
    LET stake_pool_data == w.pool
        account == AccountOf(w, a.stake_account_info)
        validator == get_validator_checked(a.stake_account_info.key, account)
        auth1 == stake_authorize(account, a.deposit_info, AUTHORITY_DEPOSIT,
                                 stake_pool_data.deposit_bump_seed,
                                 a.withdraw_info, "Withdrawer")
        w1 == SetAccount(w, a.stake_account_info, auth1.account)
        auth2 == stake_authorize(auth1.account, a.deposit_info, AUTHORITY_DEPOSIT,
                                 stake_pool_data.deposit_bump_seed,
                                 a.withdraw_info, "Staker")
        w2 == SetAccount(w, a.stake_account_info, auth2.account)
        stake_lamports == account.lamports
        token_amount == calc_pool_deposit_amount(stake_pool_data, stake_lamports)
        mint == token_mint_to(w2, POOL_KEY, a.pool_mint_info, a.dest_user_info,
                              a.withdraw_info, AUTHORITY_WITHDRAW,
                              stake_pool_data.withdraw_bump_seed, token_amount)
        validator_stake_list ==
            [w.list EXCEPT !.validators =
                Append(@, ValidatorStakeInfo(validator.validator, stake_lamports, clock_epoch))]
        w3 == [mint.w EXCEPT !.list = validator_stake_list]
        pool_total == add_assign(stake_pool_data.pool_total, token_amount, a.overflow_checks)
        stake_total == add_assign(stake_pool_data.stake_total, stake_lamports, a.overflow_checks)
        out == [NoOut EXCEPT !.validator = validator.validator,
                             !.stake_lamports = stake_lamports,
                             !.pool_amount = token_amount,
                             !.user_amount = token_amount]
    IN
    IF a.stake_program_info # STAKE_PROGRAM THEN Ret("IncorrectProgramId", w, NoOut)
    ELSE IF ~is_initialized(stake_pool_data) THEN Ret("InvalidState", w, NoOut)
    ELSE IF check_authority_withdraw(stake_pool_data, a.withdraw_info) # "Ok"
    THEN Ret(check_authority_withdraw(stake_pool_data, a.withdraw_info), w, NoOut)
    ELSE IF check_authority_deposit(stake_pool_data, a.deposit_info) # "Ok"
    THEN Ret(check_authority_deposit(stake_pool_data, a.deposit_info), w, NoOut)
    ELSE IF check_owner(stake_pool_data, a.owner_info) # "Ok"
    THEN Ret(check_owner(stake_pool_data, a.owner_info), w, NoOut)
    ELSE IF stake_pool_data.last_update_epoch < clock_epoch
    THEN Ret("StakeListAndPoolOutOfDate", w, NoOut)
    ELSE IF stake_pool_data.token_program_id # a.token_program_info
    THEN Ret("IncorrectProgramId", w, NoOut)
    ELSE IF stake_pool_data.pool_mint # a.pool_mint_info
    THEN Ret("WrongPoolMint", w, NoOut)
    ELSE IF a.validator_stake_list_info # stake_pool_data.validator_stake_list
    THEN Ret("InvalidValidatorStakeList", w, NoOut)
    ELSE IF ~is_initialized(w.list) THEN Ret("InvalidState", w, NoOut)
    ELSE IF validator.err # "Ok" THEN Ret(validator.err, w, NoOut)
    ELSE IF contains(w.list, validator.validator)
    THEN Ret("ValidatorAlreadyAdded", w, NoOut)
    ELSE IF auth1.err # "Ok" THEN Ret(auth1.err, w, NoOut)
    ELSE IF auth2.err # "Ok" THEN Ret(auth2.err, w1, NoOut)
    ELSE IF token_amount = None THEN Ret("CalculationFailure", w2, NoOut)
    ELSE IF mint.err # "Ok" THEN Ret(mint.err, w2, NoOut)
    ELSE IF check_stake_activation(account) # "Ok"
    THEN Ret(check_stake_activation(account), mint.w, NoOut)
    ELSE IF serialize_list(validator_stake_list) # "Ok"
    THEN Ret(serialize_list(validator_stake_list), mint.w, NoOut)
    ELSE IF pool_total = None \/ stake_total = None
    THEN Ret("ProgramFailedToComplete", w3, NoOut)
    ELSE Ret("Ok",
             [w3 EXCEPT !.pool = [stake_pool_data EXCEPT !.pool_total = pool_total,
                                                         !.stake_total = stake_total]],
             out)

\* Processor::process_remove_validator_stake_account
process_remove_validator_stake_account(w, a, clock_epoch) ==
    LET stake_pool == w.pool
        account == AccountOf(w, a.stake_account_info)
        validator == get_validator_checked(a.stake_account_info.key, account)
        auth1 == stake_authorize(account, a.withdraw_info, AUTHORITY_WITHDRAW,
                                 stake_pool.withdraw_bump_seed,
                                 a.new_stake_authority_info, "Withdrawer")
        w1 == SetAccount(w, a.stake_account_info, auth1.account)
        auth2 == stake_authorize(auth1.account, a.withdraw_info, AUTHORITY_WITHDRAW,
                                 stake_pool.withdraw_bump_seed,
                                 a.new_stake_authority_info, "Staker")
        w2 == SetAccount(w, a.stake_account_info, auth2.account)
        stake_lamports == account.lamports
        token_amount == calc_pool_withdraw_amount(stake_pool, stake_lamports)
        burn == token_burn(w2, a.burn_from_info, a.pool_mint_info, a.withdraw_info,
                           AUTHORITY_WITHDRAW, stake_pool.withdraw_bump_seed, token_amount)
        validator_stake_list ==
            [w.list EXCEPT !.validators = retain_other(@, validator.validator)]
        w3 == [burn.w EXCEPT !.list = validator_stake_list]
        pool_total == sub_assign(stake_pool.pool_total, token_amount, a.overflow_checks)
        stake_total == sub_assign(stake_pool.stake_total, stake_lamports, a.overflow_checks)
        out == [NoOut EXCEPT !.validator = validator.validator,
                             !.stake_lamports = stake_lamports,
                             !.pool_amount = token_amount]
    IN
    IF a.stake_program_info # STAKE_PROGRAM THEN Ret("IncorrectProgramId", w, NoOut)
    ELSE IF ~is_initialized(stake_pool) THEN Ret("InvalidState", w, NoOut)
    ELSE IF check_authority_withdraw(stake_pool, a.withdraw_info) # "Ok"
    THEN Ret(check_authority_withdraw(stake_pool, a.withdraw_info), w, NoOut)
    ELSE IF check_owner(stake_pool, a.owner_info) # "Ok"
    THEN Ret(check_owner(stake_pool, a.owner_info), w, NoOut)
    ELSE IF stake_pool.last_update_epoch < clock_epoch
    THEN Ret("StakeListAndPoolOutOfDate", w, NoOut)
    ELSE IF stake_pool.token_program_id # a.token_program_info
    THEN Ret("IncorrectProgramId", w, NoOut)
    ELSE IF stake_pool.pool_mint # a.pool_mint_info
    THEN Ret("WrongPoolMint", w, NoOut)
    ELSE IF a.validator_stake_list_info # stake_pool.validator_stake_list
    THEN Ret("InvalidValidatorStakeList", w, NoOut)
    ELSE IF ~is_initialized(w.list) THEN Ret("InvalidState", w, NoOut)
    ELSE IF validator.err # "Ok" THEN Ret(validator.err, w, NoOut)
    ELSE IF ~contains(w.list, validator.validator)
    THEN Ret("ValidatorNotFound", w, NoOut)
    ELSE IF auth1.err # "Ok" THEN Ret(auth1.err, w, NoOut)
    ELSE IF auth2.err # "Ok" THEN Ret(auth2.err, w1, NoOut)
    ELSE IF token_amount = None THEN Ret("CalculationFailure", w2, NoOut)
    ELSE IF burn.err # "Ok" THEN Ret(burn.err, w2, NoOut)
    ELSE IF serialize_list(validator_stake_list) # "Ok"
    THEN Ret(serialize_list(validator_stake_list), burn.w, NoOut)
    ELSE IF pool_total = None \/ stake_total = None
    THEN Ret("ProgramFailedToComplete", w3, NoOut)
    ELSE Ret("Ok",
             [w3 EXCEPT !.pool = [stake_pool EXCEPT !.pool_total = pool_total,
                                                    !.stake_total = stake_total]],
             out)

\* the list record behind a list handle: only LIST_KEY holds a list
ListOf(w, key) == IF key = LIST_KEY THEN w.list ELSE ZeroList

\* refresh_record without the comparison of the account's validator with the
\* record's
RECURSIVE refresh_record_mut(_, _, _, _, _)
refresh_record_mut(w, record, accounts, i, clock_epoch) ==
    IF i > Len(accounts) THEN record
    ELSE refresh_record_mut(w,
                            [record EXCEPT !.last_update_epoch = clock_epoch,
                                           !.balance = AccountOf(w, accounts[i]).lamports],
                            accounts, i + 1, clock_epoch)

\* inner loop of process_update_list_balance for one stale record: every
\* supplied account of the record's validator overwrites balance and epoch
RECURSIVE refresh_record(_, _, _, _, _)
refresh_record(w, record, accounts, i, clock_epoch) ==
    IF i > Len(accounts) THEN record
    ELSE IF get_validator(AccountOf(w, accounts[i])).validator # record.validator_account
    THEN refresh_record(w, record, accounts, i + 1, clock_epoch)
    ELSE refresh_record(w,
                        [record EXCEPT !.last_update_epoch = clock_epoch,
                                       !.balance = AccountOf(w, accounts[i]).lamports],
                        accounts, i + 1, clock_epoch)

\* process_update_list_balance appending the refreshed records to the list
\* instead of updating them in place
process_update_list_balance_mut(w, a, clock_epoch) ==
    LET validator_stake_list == ListOf(w, a.validator_stake_list_info)
        accounts == a.validator_stake_accounts
        all == [i \in DOMAIN validator_stake_list.validators |->
                   refresh_record(w, validator_stake_list.validators[i],
                                  accounts, 1, clock_epoch)]
        refreshed == SelectSeq(all, LAMBDA record :
                        /\ record.last_update_epoch = clock_epoch
                        /\ \E i \in DOMAIN validator_stake_list.validators :
                              /\ validator_stake_list.validators[i].validator_account
                                    = record.validator_account
                              /\ validator_stake_list.validators[i].last_update_epoch
                                    < clock_epoch)
    IN
    IF ~is_initialized(validator_stake_list) THEN Ret("InvalidState", w, NoOut)
    ELSE IF refreshed # <<>>
    THEN Ret("Ok",
             [w EXCEPT !.list = [validator_stake_list EXCEPT
                                    !.validators = @ \o refreshed]],
             NoOut)
    ELSE Ret("Ok", w, NoOut)

\* Processor::process_update_list_balance
process_update_list_balance(w, a, clock_epoch) ==
    LET validator_stake_list == ListOf(w, a.validator_stake_list_info)
        accounts == a.validator_stake_accounts
        stale(record) == record.last_update_epoch < clock_epoch
        refreshed == [i \in DOMAIN validator_stake_list.validators |->
                        IF stale(validator_stake_list.validators[i])
                        THEN refresh_record(w, validator_stake_list.validators[i],
                                            accounts, 1, clock_epoch)
                        ELSE validator_stake_list.validators[i]]
        changes == refreshed # validator_stake_list.validators
    IN
    IF ~is_initialized(validator_stake_list) THEN Ret("InvalidState", w, NoOut)
    \* validator_account.ok_or(WrongStakeState)? inside the loop over a stale record
    ELSE IF /\ \E i \in DOMAIN validator_stake_list.validators :
                  stale(validator_stake_list.validators[i])
            /\ \E j \in DOMAIN accounts : get_validator(AccountOf(w, accounts[j])).err # "Ok"
    THEN Ret("WrongStakeState", w, NoOut)
    ELSE IF changes
    THEN Ret("Ok", [w EXCEPT !.list = [validator_stake_list EXCEPT !.validators = refreshed]],
             NoOut)
    ELSE Ret("Ok", w, NoOut)

\* the loop of process_update_pool_balance: None on a panic, -2 on a stale record
STALE == -2

RECURSIVE sum_balances_mut(_, _, _, _, _)
sum_balances_mut(validators, i, total_balance, clock_epoch, overflow_checks) ==
    IF i > Len(validators) THEN total_balance
    ELSE IF add_assign(total_balance, validators[i].balance, overflow_checks) = None THEN None
    ELSE sum_balances_mut(validators, i + 1,
                          add_assign(total_balance, validators[i].balance, overflow_checks),
                          clock_epoch, overflow_checks)

RECURSIVE sum_balances(_, _, _, _, _)
sum_balances(validators, i, total_balance, clock_epoch, overflow_checks) ==
    IF i > Len(validators) THEN total_balance
    ELSE IF validators[i].last_update_epoch < clock_epoch THEN STALE
    ELSE IF add_assign(total_balance, validators[i].balance, overflow_checks) = None THEN None
    ELSE sum_balances(validators, i + 1,
                      add_assign(total_balance, validators[i].balance, overflow_checks),
                      clock_epoch, overflow_checks)

process_update_pool_balance_mut(w, a, clock_epoch) ==
    LET stake_pool == w.pool
        validator_stake_list == ListOf(w, a.validator_stake_list_info)
        total_balance == sum_balances(validator_stake_list.validators, 1, 0,
                                      clock_epoch, a.overflow_checks)
    IN
    IF ~is_initialized(stake_pool) THEN Ret("InvalidState", w, NoOut)
    ELSE IF a.validator_stake_list_info # stake_pool.validator_stake_list
    THEN Ret("InvalidValidatorStakeList", w, NoOut)
    ELSE IF ~is_initialized(validator_stake_list) THEN Ret("InvalidState", w, NoOut)
    ELSE IF total_balance = STALE THEN Ret("StakeListOutOfDate", w, NoOut)
    ELSE IF total_balance = None THEN Ret("ProgramFailedToComplete", w, NoOut)
    ELSE Ret("Ok",
             [w EXCEPT !.pool = [stake_pool EXCEPT !.stake_total = total_balance,
                                                   !.last_update_epoch = clock_epoch + 1]],
             NoOut)

process_update_pool_balance_stale(w, a, clock_epoch) ==
    LET stake_pool == w.pool
        validator_stake_list == ListOf(w, a.validator_stake_list_info)
        total_balance == sum_balances(validator_stake_list.validators, 1, 0,
                                      clock_epoch, a.overflow_checks)
    IN
    IF ~is_initialized(stake_pool) THEN Ret("InvalidState", w, NoOut)
    ELSE IF a.validator_stake_list_info # stake_pool.validator_stake_list
    THEN Ret("InvalidValidatorStakeList", w, NoOut)
    ELSE IF ~is_initialized(validator_stake_list) THEN Ret("InvalidState", w, NoOut)
    ELSE IF total_balance = None THEN Ret("ProgramFailedToComplete", w, NoOut)
    ELSE Ret("Ok",
             [w EXCEPT !.pool = [stake_pool EXCEPT !.stake_total = total_balance,
                                                   !.last_update_epoch = clock_epoch]],
             NoOut)

\* Processor::process_update_pool_balance
process_update_pool_balance(w, a, clock_epoch) ==
    LET stake_pool == w.pool
        validator_stake_list == ListOf(w, a.validator_stake_list_info)
        total_balance == sum_balances(validator_stake_list.validators, 1, 0,
                                      clock_epoch, a.overflow_checks)
    IN
    IF ~is_initialized(stake_pool) THEN Ret("InvalidState", w, NoOut)
    ELSE IF a.validator_stake_list_info # stake_pool.validator_stake_list
    THEN Ret("InvalidValidatorStakeList", w, NoOut)
    ELSE IF ~is_initialized(validator_stake_list) THEN Ret("InvalidState", w, NoOut)
    ELSE IF total_balance = STALE THEN Ret("StakeListOutOfDate", w, NoOut)
    ELSE IF total_balance = None THEN Ret("ProgramFailedToComplete", w, NoOut)
    ELSE Ret("Ok",
             [w EXCEPT !.pool = [stake_pool EXCEPT !.stake_total = total_balance,
                                                   !.last_update_epoch = clock_epoch]],
             NoOut)

\* the deposit recording the deposited lamports, not the lamports of the pooled
\* account after the merge, as the entry's balance
process_deposit_mut(w, a, clock_epoch) ==
    LET stake_pool == w.pool
        validator_stake_list == ListOf(w, a.validator_stake_list_info)
        stake_account == AccountOf(w, a.stake_info)
        validator_stake_account == AccountOf(w, a.validator_stake_account_info)
        validator == get_validator_checked(a.validator_stake_account_info.key,
                                           validator_stake_account)
        item == find_mut(validator_stake_list, validator.validator)
        stake_lamports == stake_account.lamports
        pool_amount == calc_pool_deposit_amount(stake_pool, stake_lamports)
        fee_amount == calc_fee_amount(stake_pool, pool_amount)
        user_amount == IF fee_amount > pool_amount THEN None ELSE pool_amount - fee_amount
        auth1 == stake_authorize(stake_account, a.deposit_info, AUTHORITY_DEPOSIT,
                                 stake_pool.deposit_bump_seed, a.withdraw_info, "Withdrawer")
        auth2 == stake_authorize(auth1.account, a.deposit_info, AUTHORITY_DEPOSIT,
                                 stake_pool.deposit_bump_seed, a.withdraw_info, "Staker")
        merge == stake_merge(auth2.account, a.withdraw_info, AUTHORITY_WITHDRAW,
                             stake_pool.withdraw_bump_seed, validator_stake_account)
        w1 == SetAccount(w, a.validator_stake_account_info, merge.merge_with)
        mint1 == token_mint_to(w1, POOL_KEY, a.pool_mint_info, a.dest_user_info,
                               a.withdraw_info, AUTHORITY_WITHDRAW,
                               stake_pool.withdraw_bump_seed, user_amount)
        mint2 == token_mint_to(mint1.w, POOL_KEY, a.pool_mint_info, a.owner_fee_info,
                               a.withdraw_info, AUTHORITY_WITHDRAW,
                               stake_pool.withdraw_bump_seed, fee_amount)
        pool_total == add_assign(stake_pool.pool_total, pool_amount, a.overflow_checks)
        stake_total == add_assign(stake_pool.stake_total, stake_lamports, a.overflow_checks)
        w2 == [mint2.w EXCEPT !.pool = [stake_pool EXCEPT !.pool_total = pool_total,
                                                          !.stake_total = stake_total]]
        w3 == [w2 EXCEPT !.list.validators[item].balance = stake_lamports]
        out == [validator |-> validator.validator, stake_lamports |-> stake_lamports,
                pool_amount |-> pool_amount, fee_amount |-> fee_amount,
                user_amount |-> user_amount, stake_amount |-> 0, received |-> 0]
    IN
    IF a.stake_program_info # STAKE_PROGRAM THEN Ret("IncorrectProgramId", w, NoOut)
    ELSE IF ~is_initialized(stake_pool) THEN Ret("InvalidState", w, NoOut)
    ELSE IF check_stake_activation(stake_account) # "Ok"
    THEN Ret(check_stake_activation(stake_account), w, NoOut)
    ELSE IF check_authority_withdraw(stake_pool, a.withdraw_info) # "Ok"
    THEN Ret(check_authority_withdraw(stake_pool, a.withdraw_info), w, NoOut)
    ELSE IF check_authority_deposit(stake_pool, a.deposit_info) # "Ok"
    THEN Ret(check_authority_deposit(stake_pool, a.deposit_info), w, NoOut)
    ELSE IF stake_pool.owner_fee_account # a.owner_fee_info
    THEN Ret("InvalidFeeAccount", w, NoOut)
    ELSE IF stake_pool.token_program_id # a.token_program_info
    THEN Ret("IncorrectProgramId", w, NoOut)
    ELSE IF a.validator_stake_list_info # stake_pool.validator_stake_list
    THEN Ret("InvalidValidatorStakeList", w, NoOut)
    ELSE IF stake_pool.last_update_epoch < clock_epoch
    THEN Ret("StakeListAndPoolOutOfDate", w, NoOut)
    ELSE IF ~is_initialized(validator_stake_list) THEN Ret("InvalidState", w, NoOut)
    ELSE IF validator.err # "Ok" THEN Ret(validator.err, w, NoOut)
    ELSE IF item = 0 THEN Ret("ValidatorNotFound", w, NoOut)
    ELSE IF pool_amount = None THEN Ret("CalculationFailure", w, NoOut)
    ELSE IF fee_amount = None THEN Ret("CalculationFailure", w, NoOut)
    ELSE IF user_amount = None THEN Ret("CalculationFailure", w, NoOut)
    ELSE IF auth1.err # "Ok" THEN Ret(auth1.err, w, NoOut)
    ELSE IF auth2.err # "Ok" THEN Ret(auth2.err, w, NoOut)
    ELSE IF merge.err # "Ok" THEN Ret(merge.err, w, NoOut)
    ELSE IF mint1.err # "Ok" THEN Ret(mint1.err, w1, NoOut)
    ELSE IF mint2.err # "Ok" THEN Ret(mint2.err, mint1.w, NoOut)
    ELSE IF pool_total = None \/ stake_total = None
    THEN Ret("ProgramFailedToComplete", mint2.w, NoOut)
    ELSE Ret("Ok", w3, out)

\* Processor::process_deposit
process_deposit(w, a, clock_epoch) ==
    LET stake_pool == w.pool
        validator_stake_list == ListOf(w, a.validator_stake_list_info)
        stake_account == AccountOf(w, a.stake_info)
        validator_stake_account == AccountOf(w, a.validator_stake_account_info)
        validator == get_validator_checked(a.validator_stake_account_info.key,
                                           validator_stake_account)
        item == find_mut(validator_stake_list, validator.validator)
        stake_lamports == stake_account.lamports
        pool_amount == calc_pool_deposit_amount(stake_pool, stake_lamports)
        fee_amount == calc_fee_amount(stake_pool, pool_amount)
        user_amount == IF fee_amount > pool_amount THEN None ELSE pool_amount - fee_amount
        auth1 == stake_authorize(stake_account, a.deposit_info, AUTHORITY_DEPOSIT,
                                 stake_pool.deposit_bump_seed, a.withdraw_info, "Withdrawer")
        auth2 == stake_authorize(auth1.account, a.deposit_info, AUTHORITY_DEPOSIT,
                                 stake_pool.deposit_bump_seed, a.withdraw_info, "Staker")
        merge == stake_merge(auth2.account, a.withdraw_info, AUTHORITY_WITHDRAW,
                             stake_pool.withdraw_bump_seed, validator_stake_account)
        w1 == SetAccount(w, a.validator_stake_account_info, merge.merge_with)
        mint1 == token_mint_to(w1, POOL_KEY, a.pool_mint_info, a.dest_user_info,
                               a.withdraw_info, AUTHORITY_WITHDRAW,
                               stake_pool.withdraw_bump_seed, user_amount)
        mint2 == token_mint_to(mint1.w, POOL_KEY, a.pool_mint_info, a.owner_fee_info,
                               a.withdraw_info, AUTHORITY_WITHDRAW,
                               stake_pool.withdraw_bump_seed, fee_amount)
        pool_total == add_assign(stake_pool.pool_total, pool_amount, a.overflow_checks)
        stake_total == add_assign(stake_pool.stake_total, stake_lamports, a.overflow_checks)
        w2 == [mint2.w EXCEPT !.pool = [stake_pool EXCEPT !.pool_total = pool_total,
                                                          !.stake_total = stake_total]]
        w3 == [w2 EXCEPT !.list.validators[item].balance = merge.merge_with.lamports]
        out == [validator |-> validator.validator, stake_lamports |-> stake_lamports,
                pool_amount |-> pool_amount, fee_amount |-> fee_amount,
                user_amount |-> user_amount, stake_amount |-> 0, received |-> 0]
    IN
    IF a.stake_program_info # STAKE_PROGRAM THEN Ret("IncorrectProgramId", w, NoOut)
    ELSE IF ~is_initialized(stake_pool) THEN Ret("InvalidState", w, NoOut)
    ELSE IF check_stake_activation(stake_account) # "Ok"
    THEN Ret(check_stake_activation(stake_account), w, NoOut)
    ELSE IF check_authority_withdraw(stake_pool, a.withdraw_info) # "Ok"
    THEN Ret(check_authority_withdraw(stake_pool, a.withdraw_info), w, NoOut)
    ELSE IF check_authority_deposit(stake_pool, a.deposit_info) # "Ok"
    THEN Ret(check_authority_deposit(stake_pool, a.deposit_info), w, NoOut)
    ELSE IF stake_pool.owner_fee_account # a.owner_fee_info
    THEN Ret("InvalidFeeAccount", w, NoOut)
    ELSE IF stake_pool.token_program_id # a.token_program_info
    THEN Ret("IncorrectProgramId", w, NoOut)
    ELSE IF a.validator_stake_list_info # stake_pool.validator_stake_list
    THEN Ret("InvalidValidatorStakeList", w, NoOut)
    ELSE IF stake_pool.last_update_epoch < clock_epoch
    THEN Ret("StakeListAndPoolOutOfDate", w, NoOut)
    ELSE IF ~is_initialized(validator_stake_list) THEN Ret("InvalidState", w, NoOut)
    ELSE IF validator.err # "Ok" THEN Ret(validator.err, w, NoOut)
    ELSE IF item = 0 THEN Ret("ValidatorNotFound", w, NoOut)
    ELSE IF pool_amount = None THEN Ret("CalculationFailure", w, NoOut)
    ELSE IF fee_amount = None THEN Ret("CalculationFailure", w, NoOut)
    ELSE IF user_amount = None THEN Ret("CalculationFailure", w, NoOut)
    ELSE IF auth1.err # "Ok" THEN Ret(auth1.err, w, NoOut)
    ELSE IF auth2.err # "Ok" THEN Ret(auth2.err, w, NoOut)
    ELSE IF merge.err # "Ok" THEN Ret(merge.err, w, NoOut)
    ELSE IF mint1.err # "Ok" THEN Ret(mint1.err, w1, NoOut)
    ELSE IF mint2.err # "Ok" THEN Ret(mint2.err, mint1.w, NoOut)
    ELSE IF pool_total = None \/ stake_total = None
    THEN Ret("ProgramFailedToComplete", mint2.w, NoOut)
    ELSE Ret("Ok", w3, out)

process_withdraw_mut(w, pool_amount, a, clock_epoch) ==
    LET stake_pool == w.pool
        validator_stake_list == ListOf(w, a.validator_stake_list_info)
        split_from == AccountOf(w, a.stake_split_from)
        validator == get_validator_checked(a.stake_split_from.key, split_from)
        item == find_mut(validator_stake_list, validator.validator)
        stake_amount == calc_lamports_amount(stake_pool, pool_amount)
        split == stake_split(split_from, a.withdraw_info, AUTHORITY_WITHDRAW,
                             stake_pool.withdraw_bump_seed, stake_amount)
        w1 == SetAccount(w, a.stake_split_from, split.account)
        auth1 == stake_authorize(split.split, a.withdraw_info, AUTHORITY_WITHDRAW,
                                 stake_pool.withdraw_bump_seed,
                                 a.user_stake_authority, "Withdrawer")
        auth2 == stake_authorize(auth1.account, a.withdraw_info, AUTHORITY_WITHDRAW,
                                 stake_pool.withdraw_bump_seed,
                                 a.user_stake_authority, "Staker")
        burn == token_burn(w1, a.burn_from_info, a.pool_mint_info, a.withdraw_info,
                           AUTHORITY_WITHDRAW, stake_pool.withdraw_bump_seed, pool_amount)
        pool_total == sub_assign(stake_pool.pool_total, pool_amount, a.overflow_checks)
        stake_total == sub_assign(stake_pool.stake_total, stake_amount, a.overflow_checks)
        w2 == [burn.w EXCEPT !.pool = [stake_pool EXCEPT !.pool_total = pool_total,
                                                         !.stake_total = stake_total]]
        w3 == [w2 EXCEPT !.list.validators[item].balance = split.account.lamports]
        out == [validator |-> validator.validator, stake_lamports |-> 0,
                pool_amount |-> pool_amount, fee_amount |-> 0,
                user_amount |-> 0, stake_amount |-> stake_amount,
                received |-> auth2.account.lamports]
    IN
    IF a.stake_program_info # STAKE_PROGRAM THEN Ret("IncorrectProgramId", w, NoOut)
    ELSE IF ~is_initialized(stake_pool) THEN Ret("InvalidState", w, NoOut)
    ELSE IF check_authority_withdraw(stake_pool, a.withdraw_info) # "Ok"
    THEN Ret(check_authority_withdraw(stake_pool, a.withdraw_info), w, NoOut)
    ELSE IF stake_pool.token_program_id # a.token_program_info
    THEN Ret("IncorrectProgramId", w, NoOut)
    ELSE IF a.validator_stake_list_info # stake_pool.validator_stake_list
    THEN Ret("InvalidValidatorStakeList", w, NoOut)
    ELSE IF ~is_initialized(validator_stake_list) THEN Ret("InvalidState", w, NoOut)
    ELSE IF validator.err # "Ok" THEN Ret(validator.err, w, NoOut)
    ELSE IF item = 0 THEN Ret("ValidatorNotFound", w, NoOut)
    ELSE IF stake_amount = None THEN Ret("CalculationFailure", w, NoOut)
    ELSE IF split.err # "Ok" THEN Ret(split.err, w, NoOut)
    ELSE IF auth1.err # "Ok" THEN Ret(auth1.err, w1, NoOut)
    ELSE IF auth2.err # "Ok" THEN Ret(auth2.err, w1, NoOut)
    ELSE IF burn.err # "Ok" THEN Ret(burn.err, w1, NoOut)
    ELSE IF pool_total = None \/ stake_total = None
    THEN Ret("ProgramFailedToComplete", burn.w, NoOut)
    ELSE Ret("Ok", w3, out)

\* Processor::process_withdraw
process_withdraw(w, pool_amount, a, clock_epoch) ==
    LET stake_pool == w.pool
        validator_stake_list == ListOf(w, a.validator_stake_list_info)
        split_from == AccountOf(w, a.stake_split_from)
        validator == get_validator_checked(a.stake_split_from.key, split_from)
        item == find_mut(validator_stake_list, validator.validator)
        stake_amount == calc_lamports_amount(stake_pool, pool_amount)
        split == stake_split(split_from, a.withdraw_info, AUTHORITY_WITHDRAW,
                             stake_pool.withdraw_bump_seed, stake_amount)
        w1 == SetAccount(w, a.stake_split_from, split.account)
        auth1 == stake_authorize(split.split, a.withdraw_info, AUTHORITY_WITHDRAW,
                                 stake_pool.withdraw_bump_seed,
                                 a.user_stake_authority, "Withdrawer")
        auth2 == stake_authorize(auth1.account, a.withdraw_info, AUTHORITY_WITHDRAW,
                                 stake_pool.withdraw_bump_seed,
                                 a.user_stake_authority, "Staker")
        burn == token_burn(w1, a.burn_from_info, a.pool_mint_info, a.withdraw_info,
                           AUTHORITY_WITHDRAW, stake_pool.withdraw_bump_seed, pool_amount)
        pool_total == sub_assign(stake_pool.pool_total, pool_amount, a.overflow_checks)
        stake_total == sub_assign(stake_pool.stake_total, stake_amount, a.overflow_checks)
        w2 == [burn.w EXCEPT !.pool = [stake_pool EXCEPT !.pool_total = pool_total,
                                                         !.stake_total = stake_total]]
        w3 == [w2 EXCEPT !.list.validators[item].balance = split.account.lamports]
        out == [validator |-> validator.validator, stake_lamports |-> 0,
                pool_amount |-> pool_amount, fee_amount |-> 0,
                user_amount |-> 0, stake_amount |-> stake_amount,
                received |-> auth2.account.lamports]
    IN
    IF a.stake_program_info # STAKE_PROGRAM THEN Ret("IncorrectProgramId", w, NoOut)
    ELSE IF ~is_initialized(stake_pool) THEN Ret("InvalidState", w, NoOut)
    ELSE IF check_authority_withdraw(stake_pool, a.withdraw_info) # "Ok"
    THEN Ret(check_authority_withdraw(stake_pool, a.withdraw_info), w, NoOut)
    ELSE IF stake_pool.token_program_id # a.token_program_info
    THEN Ret("IncorrectProgramId", w, NoOut)
    ELSE IF a.validator_stake_list_info # stake_pool.validator_stake_list
    THEN Ret("InvalidValidatorStakeList", w, NoOut)
    ELSE IF stake_pool.last_update_epoch < clock_epoch
    THEN Ret("StakeListAndPoolOutOfDate", w, NoOut)
    ELSE IF ~is_initialized(validator_stake_list) THEN Ret("InvalidState", w, NoOut)
    ELSE IF validator.err # "Ok" THEN Ret(validator.err, w, NoOut)
    ELSE IF item = 0 THEN Ret("ValidatorNotFound", w, NoOut)
    ELSE IF stake_amount = None THEN Ret("CalculationFailure", w, NoOut)
    ELSE IF split.err # "Ok" THEN Ret(split.err, w, NoOut)
    ELSE IF auth1.err # "Ok" THEN Ret(auth1.err, w1, NoOut)
    ELSE IF auth2.err # "Ok" THEN Ret(auth2.err, w1, NoOut)
    ELSE IF burn.err # "Ok" THEN Ret(burn.err, w1, NoOut)
    ELSE IF pool_total = None \/ stake_total = None
    THEN Ret("ProgramFailedToComplete", burn.w, NoOut)
    ELSE Ret("Ok", w3, out)

\* Processor::process_set_staking_auth
process_set_staking_auth(w, a) ==
    LET stake_pool == w.pool
        auth == stake_authorize(AccountOf(w, a.stake_info), a.withdraw_info,
                                AUTHORITY_WITHDRAW, stake_pool.withdraw_bump_seed,
                                a.staker_info, "Staker")
    IN
    IF a.stake_program_info # STAKE_PROGRAM THEN Ret("IncorrectProgramId", w, NoOut)
    ELSE IF ~is_initialized(stake_pool) THEN Ret("InvalidState", w, NoOut)
    ELSE IF check_authority_withdraw(stake_pool, a.withdraw_info) # "Ok"
    THEN Ret(check_authority_withdraw(stake_pool, a.withdraw_info), w, NoOut)
    ELSE IF check_owner(stake_pool, a.owner_info) # "Ok"
    THEN Ret(check_owner(stake_pool, a.owner_info), w, NoOut)
    ELSE IF auth.err # "Ok" THEN Ret(auth.err, w, NoOut)
    ELSE Ret("Ok", SetAccount(w, a.stake_info, auth.account), NoOut)

process_set_owner_anymint(w, a) ==
    LET stake_pool == w.pool IN
    IF ~is_initialized(stake_pool) THEN Ret("InvalidState", w, NoOut)
    ELSE IF check_owner(stake_pool, a.owner_info) # "Ok"
    THEN Ret(check_owner(stake_pool, a.owner_info), w, NoOut)
    ELSE Ret("Ok",
             [w EXCEPT !.pool = [stake_pool EXCEPT
                                    !.owner = a.new_owner_info,
                                    !.owner_fee_account = a.new_owner_fee_info]],
             NoOut)

process_set_owner_mut(w, a) ==
    LET stake_pool == w.pool IN
    IF ~is_initialized(stake_pool) THEN Ret("InvalidState", w, NoOut)
    ELSE IF stake_pool.pool_mint # TokenAccountMint(a.new_owner_fee_info)
    THEN Ret("WrongAccountMint", w, NoOut)
    ELSE Ret("Ok",
             [w EXCEPT !.pool = [stake_pool EXCEPT
                                    !.owner = a.new_owner_info,
                                    !.owner_fee_account = a.new_owner_fee_info]],
             NoOut)

\* Processor::process_set_owner
process_set_owner(w, a) ==
    LET stake_pool == w.pool IN
    IF ~is_initialized(stake_pool) THEN Ret("InvalidState", w, NoOut)
    ELSE IF check_owner(stake_pool, a.owner_info) # "Ok"
    THEN Ret(check_owner(stake_pool, a.owner_info), w, NoOut)
    ELSE IF stake_pool.pool_mint # TokenAccountMint(a.new_owner_fee_info)
    THEN Ret("WrongAccountMint", w, NoOut)
    ELSE Ret("Ok",
             [w EXCEPT !.pool = [stake_pool EXCEPT
                                    !.owner = a.new_owner_info,
                                    !.owner_fee_account = a.new_owner_fee_info]],
             NoOut)

\* Processor::unpack_mint / unpack_token_account: the account must be owned by
\* the program whose id is passed, and hold the expected layout.  Accounts
\* owned by this program never hold a token layout.
unpack_mint(key, token_program_id) ==
    IF AccountOwner(key) # token_program_id THEN "IncorrectTokenProgramId"
    ELSE IF key \notin {POOL_MINT, FOREIGN_MINT, LP_MINT} THEN "ExpectedMint"
    ELSE "Ok"

unpack_token_account(key, token_program_id) ==
    IF AccountOwner(key) # token_program_id THEN "IncorrectTokenProgramId"
    ELSE IF TokenAccountMint(key) = NO_KEY THEN "ExpectedAccount"
    ELSE "Ok"

\* spl_token transfer through Processor::token_transfer
token_transfer(w, source_balance, destination, amount) ==
    IF amount > source_balance THEN [err |-> "InsufficientFunds", w |-> w]
    ELSE IF destination # LP_RESERVE THEN [err |-> "Ok", w |-> w]
    ELSE [err |-> "Ok", w |-> [w EXCEPT !.liq.reserve = @ + amount]]

process_add_liquidity_mut(w, wsol_amount, a) ==
    LET stake_pool_data == w.pool
        metalp_supply == w.liq.lp_supply
        our_wsol_total == w.liq.reserve
        transfer == token_transfer(w, a.user_wsol_balance, a.liq_pool_wsol_dest_account,
                                   wsol_amount)
        metalp_amount == shares_from_value(wsol_amount, our_wsol_total, metalp_supply)
        signed == signs_for(a.metalp_mint_withdraw_authority, PROGRAM_ID,
                            AUTHORITY_WITHDRAW, 0)
    IN
    IF ~is_initialized(stake_pool_data) THEN Ret("InvalidState", w, NoOut)
    ELSE IF unpack_mint(a.metalp_token_mint_account, PROGRAM_ID) # "Ok"
    THEN Ret(unpack_mint(a.metalp_token_mint_account, PROGRAM_ID), w, NoOut)
    ELSE IF unpack_token_account(a.liq_pool_wsol_dest_account, PROGRAM_ID) # "Ok"
    THEN Ret(unpack_token_account(a.liq_pool_wsol_dest_account, PROGRAM_ID), w, NoOut)
    ELSE IF transfer.err # "Ok" THEN Ret(transfer.err, w, NoOut)
    ELSE IF metalp_amount = None THEN Ret("CalculationFailure", transfer.w, NoOut)
    ELSE IF ~signed \/ MintAuthority(a.metalp_token_mint_account) # a.metalp_mint_withdraw_authority
    THEN Ret("MissingRequiredSignature", transfer.w, NoOut)
    ELSE Ret("Ok",
             [transfer.w EXCEPT !.liq.lp_supply = @ + metalp_amount],
             [NoOut EXCEPT !.pool_amount = metalp_amount])

\* Processor::process_add_liquidity
process_add_liquidity(w, wsol_amount, a) ==
    LET stake_pool_data == w.pool
        metalp_supply == w.liq.lp_supply
        our_wsol_total == w.liq.reserve
        transfer == token_transfer(w, a.user_wsol_balance, a.liq_pool_wsol_dest_account,
                                   wsol_amount)
        metalp_amount == shares_from_value(wsol_amount, our_wsol_total, metalp_supply)
        signed == signs_for(a.metalp_mint_withdraw_authority, PROGRAM_ID,
                            AUTHORITY_WITHDRAW, 0)
    IN
    IF wsol_amount = 0 THEN Ret("ZeroAmount", w, NoOut)
    ELSE IF ~is_initialized(stake_pool_data) THEN Ret("InvalidState", w, NoOut)
    ELSE IF unpack_mint(a.metalp_token_mint_account, PROGRAM_ID) # "Ok"
    THEN Ret(unpack_mint(a.metalp_token_mint_account, PROGRAM_ID), w, NoOut)
    ELSE IF unpack_token_account(a.liq_pool_wsol_dest_account, PROGRAM_ID) # "Ok"
    THEN Ret(unpack_token_account(a.liq_pool_wsol_dest_account, PROGRAM_ID), w, NoOut)
    ELSE IF transfer.err # "Ok" THEN Ret(transfer.err, w, NoOut)
    ELSE IF metalp_amount = None THEN Ret("CalculationFailure", transfer.w, NoOut)
    ELSE IF ~signed \/ MintAuthority(a.metalp_token_mint_account) # a.metalp_mint_withdraw_authority
    THEN Ret("MissingRequiredSignature", transfer.w, NoOut)
    ELSE Ret("Ok",
             [transfer.w EXCEPT !.liq.lp_supply = @ + metalp_amount],
             [NoOut EXCEPT !.pool_amount = metalp_amount])

\* Processor::process: dispatch on the instruction
process(w, op, a, clock_epoch) ==
    CASE op = "Initialize" -> process_initialize(w, a, clock_epoch)
      [] op = "CreateValidatorStakeAccount" -> process_create_validator_stake_account(w, a)
      [] op = "AddValidatorStakeAccount" -> process_add_validator_stake_account(w, a, clock_epoch)
      [] op = "RemoveValidatorStakeAccount" ->
             process_remove_validator_stake_account(w, a, clock_epoch)
      [] op = "UpdateListBalance" -> process_update_list_balance(w, a, clock_epoch)
      [] op = "UpdatePoolBalance" -> process_update_pool_balance(w, a, clock_epoch)
      [] op = "Deposit" -> process_deposit(w, a, clock_epoch)
      [] op = "Withdraw" -> process_withdraw(w, a.amount, a, clock_epoch)
      [] op = "SetStakingAuthority" -> process_set_staking_auth(w, a)
      [] op = "SetOwner" -> process_set_owner(w, a)
      [] op = "AddLiquidity" -> process_add_liquidity(w, a.amount, a)
      [] OTHER -> Ret("InvalidInstructionData", w, NoOut)

process_instruction_mut(w, op, a, clock_epoch) ==
    LET result == process(w, op, a, clock_epoch)
    IN  [returned |-> "Ok", result |-> result]

\* entrypoint.rs process_instruction: the processor's error is what the
\* entrypoint returns to the runtime
process_instruction(w, op, a, clock_epoch) ==
    LET result == process(w, op, a, clock_epoch)
    IN  [returned |-> result.err, result |-> result]

\* The runtime keeps the writes of an instruction only when the entrypoint
\* returned Ok; otherwise every account is as before the instruction.
Runtime(w, ix) ==
    IF ix.returned = "Ok" THEN ix.result.w ELSE w

(***************************************************************************)
(* Requests.  A well-formed request of every instruction, and requests     *)
(* that differ from a well-formed one in a single handle.                  *)
(***************************************************************************)
FAKE_PROGRAM == "fake_program"

Signed(key) == [key |-> key, is_signer |-> TRUE]
Unsigned(key) == [key |-> key, is_signer |-> FALSE]

Fees == {Fee(1, 2), Fee(2, 1)}

StakeValues == 1..MaxStake

ShareAmounts == 0..MaxLamports

Derived(v) == [key |-> find_stake_address_for_validator(v), data |-> NoStake]

DerivedInfos == {Derived(v) : v \in Validators}

\* a stake account prepared outside the program
UserStake(l, v, authority) ==
    [key |-> USER_STAKE, data |-> StakeAccount(l, v, authority, authority)]

InitializeBase ==
    [owner_info : {Signed(OWNER)},
     validator_stake_list_info : {LIST_KEY},
     pool_mint_info : {POOL_MINT}, owner_fee_info : {FEE_ACCOUNT},
     token_program_info : {TOKEN_PROGRAM}, fee : Fees,
     pool_rent_exempt : {TRUE}, list_rent_exempt : {TRUE}]

InitializeRep == {b \in InitializeBase : b.fee = Fee(1, 2)}

InitializeArgs ==
    InitializeBase
    \cup {[b EXCEPT !.owner_info = Unsigned(OWNER)] : b \in InitializeRep}
    \cup {[b EXCEPT !.pool_mint_info = FOREIGN_MINT] : b \in InitializeRep}
    \cup {[b EXCEPT !.pool_mint_info = FOREIGN_MINT, !.owner_fee_info = FOREIGN_TOKEN] :
             b \in InitializeRep}
    \cup {[b EXCEPT !.token_program_info = FAKE_PROGRAM] : b \in InitializeRep}
    \cup {[b EXCEPT !.pool_rent_exempt = FALSE] : b \in InitializeRep}
    \cup {[b EXCEPT !.list_rent_exempt = FALSE] : b \in InitializeRep}

CreateBase ==
    {[system_program_info |-> SYSTEM_PROGRAM, stake_program_info |-> STAKE_PROGRAM,
      stake_account_info |-> Derived(v), validator_info |-> v,
      stake_authority_info |-> USER, withdraw_authority_info |-> USER] : v \in Validators}

CreateRep == {b \in CreateBase : b.validator_info = "v1"}

CreateArgs ==
    CreateBase
    \cup {[b EXCEPT !.system_program_info = FAKE_PROGRAM] : b \in CreateRep}
    \cup {[b EXCEPT !.stake_program_info = FAKE_PROGRAM] : b \in CreateRep}
    \cup {[b EXCEPT !.stake_account_info = Derived("v2")] : b \in CreateRep}

AddValidatorBase ==
    [stake_program_info : {STAKE_PROGRAM}, owner_info : {Signed(OWNER), Signed(USER)},
     deposit_info : {DEPOSIT_AUTHORITY}, withdraw_info : {WITHDRAW_AUTHORITY},
     validator_stake_list_info : {LIST_KEY}, stake_account_info : DerivedInfos,
     dest_user_info : {USER_TOKEN}, pool_mint_info : {POOL_MINT},
     token_program_info : {TOKEN_PROGRAM}, overflow_checks : {FALSE}]

AddValidatorRep ==
    {b \in AddValidatorBase : b.owner_info.key = OWNER /\ b.stake_account_info = Derived("v1")}

AddValidatorArgs ==
    AddValidatorBase
    \cup {[b EXCEPT !.overflow_checks = TRUE] : b \in AddValidatorRep}
    \cup {[b EXCEPT !.owner_info = Unsigned(b.owner_info.key)] : b \in AddValidatorBase}
    \cup {[b EXCEPT !.stake_program_info = FAKE_PROGRAM] : b \in AddValidatorRep}
    \cup {[b EXCEPT !.deposit_info = k] : b \in AddValidatorRep, k \in AuthorityKeys}
    \cup {[b EXCEPT !.withdraw_info = k] : b \in AddValidatorRep, k \in AuthorityKeys}
    \cup {[b EXCEPT !.validator_stake_list_info = OTHER_LIST_KEY] : b \in AddValidatorRep}
    \cup {[b EXCEPT !.stake_account_info = UserStake(1, "v1", DEPOSIT_AUTHORITY)] :
             b \in AddValidatorRep}
    \cup {[b EXCEPT !.dest_user_info = FOREIGN_TOKEN] : b \in AddValidatorRep}
    \cup {[b EXCEPT !.pool_mint_info = FOREIGN_MINT] : b \in AddValidatorRep}
    \cup {[b EXCEPT !.token_program_info = FAKE_PROGRAM] : b \in AddValidatorRep}

RemoveValidatorBase ==
    [stake_program_info : {STAKE_PROGRAM}, owner_info : {Signed(OWNER), Signed(USER)},
     withdraw_info : {WITHDRAW_AUTHORITY}, new_stake_authority_info : {USER},
     validator_stake_list_info : {LIST_KEY}, stake_account_info : DerivedInfos,
     burn_from_info : {USER_TOKEN}, pool_mint_info : {POOL_MINT},
     token_program_info : {TOKEN_PROGRAM}, overflow_checks : {FALSE}]

RemoveValidatorRep ==
    {b \in RemoveValidatorBase :
        b.owner_info.key = OWNER /\ b.stake_account_info = Derived("v1")}

RemoveValidatorArgs ==
    RemoveValidatorBase
    \cup {[b EXCEPT !.overflow_checks = TRUE] : b \in RemoveValidatorRep}
    \cup {[b EXCEPT !.owner_info = Unsigned(b.owner_info.key)] : b \in RemoveValidatorBase}
    \cup {[b EXCEPT !.stake_program_info = FAKE_PROGRAM] : b \in RemoveValidatorRep}
    \cup {[b EXCEPT !.withdraw_info = k] : b \in RemoveValidatorRep, k \in AuthorityKeys}
    \cup {[b EXCEPT !.validator_stake_list_info = OTHER_LIST_KEY] : b \in RemoveValidatorRep}
    \cup {[b EXCEPT !.stake_account_info = UserStake(1, "v1", WITHDRAW_AUTHORITY)] :
             b \in RemoveValidatorRep}
    \cup {[b EXCEPT !.burn_from_info = FOREIGN_TOKEN] : b \in RemoveValidatorRep}
    \cup {[b EXCEPT !.pool_mint_info = FOREIGN_MINT, !.burn_from_info = FOREIGN_TOKEN] :
             b \in RemoveValidatorRep}
    \cup {[b EXCEPT !.token_program_info = FAKE_PROGRAM] : b \in RemoveValidatorRep}

\* UpdateListBalance: up to two of the pooled stake accounts, or a stake
\* account of the caller's own that is delegated to a pooled validator
UpdateListBase ==
    [validator_stake_list_info : {LIST_KEY},
     validator_stake_accounts :
        {<<>>} \cup {<<x>> : x \in DerivedInfos}
               \cup {<<x, y>> : x \in DerivedInfos, y \in DerivedInfos}]

UpdateListForeign ==
    [validator_stake_list_info : {LIST_KEY},
     validator_stake_accounts : {<<UserStake(1, "v1", USER)>>}]

UpdateListArgs ==
    UpdateListBase
    \cup UpdateListForeign
    \cup [validator_stake_list_info : {OTHER_LIST_KEY},
          validator_stake_accounts : {<<Derived("v1")>>}]

UpdatePoolArgs ==
    [validator_stake_list_info : {LIST_KEY, OTHER_LIST_KEY}, overflow_checks : BOOLEAN]

DepositBase ==
    {[stake_program_info |-> STAKE_PROGRAM, validator_stake_list_info |-> LIST_KEY,
      deposit_info |-> DEPOSIT_AUTHORITY, withdraw_info |-> WITHDRAW_AUTHORITY,
      stake_info |-> UserStake(l, v, DEPOSIT_AUTHORITY),
      validator_stake_account_info |-> Derived(v),
      dest_user_info |-> USER_TOKEN, owner_fee_info |-> f,
      pool_mint_info |-> POOL_MINT, token_program_info |-> TOKEN_PROGRAM,
      overflow_checks |-> FALSE] :
        l \in StakeValues, v \in Validators, f \in {FEE_ACCOUNT}}

DepositRep ==
    {b \in DepositBase : /\ b.stake_info.data.lamports = 1
                         /\ b.stake_info.data.voter = "v1"
                         /\ b.owner_fee_info = FEE_ACCOUNT}

DepositArgs ==
    DepositBase
    \cup {[b EXCEPT !.overflow_checks = TRUE] : b \in DepositRep}
    \cup {[b EXCEPT !.stake_program_info = FAKE_PROGRAM] : b \in DepositRep}
    \cup {[b EXCEPT !.validator_stake_list_info = OTHER_LIST_KEY] : b \in DepositRep}
    \cup {[b EXCEPT !.deposit_info = k] : b \in DepositRep, k \in AuthorityKeys}
    \cup {[b EXCEPT !.withdraw_info = k] : b \in DepositRep, k \in AuthorityKeys}
    \cup {[b EXCEPT !.stake_info = UserStake(1, b.stake_info.data.voter, USER)] :
             b \in DepositRep}
    \cup {[b EXCEPT !.stake_info = UserStake(1, v, DEPOSIT_AUTHORITY)] :
             b \in DepositRep, v \in Validators}
    \cup {[b EXCEPT !.validator_stake_account_info =
                       UserStake(1, b.stake_info.data.voter, WITHDRAW_AUTHORITY)] :
             b \in DepositRep}
    \cup {[b EXCEPT !.dest_user_info = FOREIGN_TOKEN] : b \in DepositRep}
    \cup {[b EXCEPT !.owner_fee_info = USER_TOKEN] : b \in DepositRep}
    \cup {[b EXCEPT !.pool_mint_info = FOREIGN_MINT, !.dest_user_info = FOREIGN_TOKEN] :
             b \in DepositRep}
    \cup {[b EXCEPT !.token_program_info = FAKE_PROGRAM] : b \in DepositRep}

WithdrawBase ==
    [amount : ShareAmounts,
     stake_program_info : {STAKE_PROGRAM}, validator_stake_list_info : {LIST_KEY},
     withdraw_info : {WITHDRAW_AUTHORITY}, stake_split_from : DerivedInfos,
     user_stake_authority : {USER}, burn_from_info : {USER_TOKEN},
     pool_mint_info : {POOL_MINT}, token_program_info : {TOKEN_PROGRAM},
     overflow_checks : {FALSE}]

WithdrawRep == {b \in WithdrawBase : b.amount = 1 /\ b.stake_split_from = Derived("v1")}

\* the caller burns tokens of a mint of their own
WithdrawForeign ==
    {[b EXCEPT !.pool_mint_info = FOREIGN_MINT, !.burn_from_info = FOREIGN_TOKEN] :
        b \in {x \in WithdrawBase : x.amount = 1 /\ x.stake_split_from = Derived("v1")}}

WithdrawArgs ==
    WithdrawBase
    \cup WithdrawForeign
    \cup {[b EXCEPT !.overflow_checks = TRUE] : b \in WithdrawForeign}
    \cup {[b EXCEPT !.stake_program_info = FAKE_PROGRAM] : b \in WithdrawRep}
    \cup {[b EXCEPT !.validator_stake_list_info = OTHER_LIST_KEY] : b \in WithdrawRep}
    \cup {[b EXCEPT !.withdraw_info = k] : b \in WithdrawRep, k \in AuthorityKeys}
    \cup {[b EXCEPT !.stake_split_from = UserStake(1, "v1", WITHDRAW_AUTHORITY)] :
             b \in WithdrawRep}
    \cup {[b EXCEPT !.burn_from_info = FOREIGN_TOKEN] : b \in WithdrawRep}
    \cup {[b EXCEPT !.burn_from_info = FEE_ACCOUNT] : b \in WithdrawRep}
    \cup {[b EXCEPT !.pool_mint_info = FOREIGN_MINT] : b \in WithdrawRep}
    \cup {[b EXCEPT !.token_program_info = FAKE_PROGRAM] : b \in WithdrawRep}

SetStakingAuthBase ==
    [stake_program_info : {STAKE_PROGRAM}, owner_info : {Signed(OWNER), Signed(USER)},
     withdraw_info : {WITHDRAW_AUTHORITY}, stake_info : DerivedInfos,
     staker_info : {USER}]

SetStakingAuthRep ==
    {b \in SetStakingAuthBase : /\ b.staker_info = USER /\ b.owner_info.key = OWNER
                                /\ b.stake_info = Derived("v1")}

SetStakingAuthArgs ==
    SetStakingAuthBase
    \cup {[b EXCEPT !.owner_info = Unsigned(b.owner_info.key)] : b \in SetStakingAuthBase}
    \cup {[b EXCEPT !.stake_program_info = FAKE_PROGRAM] : b \in SetStakingAuthRep}
    \cup {[b EXCEPT !.withdraw_info = k] : b \in SetStakingAuthRep, k \in AuthorityKeys}

SetOwnerArgs ==
    [owner_info : {Signed(OWNER), Signed(USER), Unsigned(OWNER), Unsigned(USER)},
          new_owner_info : {USER}, new_owner_fee_info : {FEE_ACCOUNT, FOREIGN_TOKEN}]

AddLiquidityBase ==
    [amount : {1}, metalp_token_mint_account : {LP_MINT},
     metalp_mint_withdraw_authority : {"liq_pool_authority"},
     liq_pool_wsol_dest_account : {LP_RESERVE}, user_wsol_balance : {2}]

AddLiquidityArgs ==
    AddLiquidityBase
    \cup {[b EXCEPT !.amount = 0] : b \in AddLiquidityBase}
    \cup {[b EXCEPT !.metalp_mint_withdraw_authority = USER] : b \in AddLiquidityBase}
    \cup {[b EXCEPT !.metalp_token_mint_account = BLANK_ACCOUNT] : b \in AddLiquidityBase}
    \cup {[b EXCEPT !.metalp_token_mint_account = BLANK_ACCOUNT,
                    !.liq_pool_wsol_dest_account = BLANK_ACCOUNT] : b \in AddLiquidityBase}

ArgsOf(op) ==
    CASE op = "Initialize" -> InitializeArgs
      [] op = "CreateValidatorStakeAccount" -> CreateArgs
      [] op = "AddValidatorStakeAccount" -> AddValidatorArgs
      [] op = "RemoveValidatorStakeAccount" -> RemoveValidatorArgs
      [] op = "UpdateListBalance" -> UpdateListArgs
      [] op = "UpdatePoolBalance" -> UpdatePoolArgs
      [] op = "Deposit" -> DepositArgs
      [] op = "Withdraw" -> WithdrawArgs
      [] op = "SetStakingAuthority" -> SetStakingAuthArgs
      [] op = "SetOwner" -> SetOwnerArgs
      [] op = "AddLiquidity" -> AddLiquidityArgs

\* lamports held by the pooled stake accounts
RECURSIVE SumLamports(_, _)
SumLamports(accounts, keys) ==
    IF keys = {} THEN 0
    ELSE LET k == CHOOSE x \in keys : TRUE
         IN  accounts[k].lamports + SumLamports(accounts, keys \ {k})

PooledLamports(accounts) == SumLamports(accounts, DerivedStakeKeys)

(***************************************************************************)
(* The state machine                                                       *)
(***************************************************************************)
\* `last` holds the step just taken: the error the handler returned, whether
\* the handler had written anything when it returned (wrote), whether the
\* accounts differ after the step (changed), and what the handler computed.
\* Idle between steps.
Idle == [op |-> "Idle", err |-> "Ok", wrote |-> FALSE, changed |-> FALSE, out |-> NoOut]

Init ==
    /\ pool = ZeroPool
    /\ list \in {[ZeroList EXCEPT !.max_validators = n] : n \in 1..MAX_VALIDATORS}
    /\ stake = [k \in DerivedStakeKeys |-> NoStake]
    /\ token = [k \in PoolTokenAccounts |-> 0]
    /\ epoch = 0
    /\ liq = [lp_supply |-> 0, reserve |-> 0]
    /\ last = Idle

\* The ledger is ready for the next step.  A step that left every account as
\* it was (a rejected instruction, or an accepted one without effect) is not
\* continued: what follows it is explored from the state before it.  Nor is a
\* state whose share supply or pool totals are beyond MaxShares, except that a
\* total that wrapped around to U64_MAX is followed further.
Settle ==
    /\ last.changed
    /\ Supply(token) <= MaxShares
    /\ pool.pool_total <= MaxShares \/ pool.pool_total = U64_MAX
    /\ pool.stake_total <= MaxShares \/ pool.stake_total = U64_MAX
    /\ last' = Idle
    /\ UNCHANGED <<pool, list, stake, token, epoch, liq>>

Explored == last = Idle

\* What `last` records of an instruction that returned result and left the
\* accounts as w.
Observed(op, result, w) ==
    [w |-> w,
     last |-> [op |-> op, err |-> result.err,
               wrote |-> (result.w # World), changed |-> (w # World),
               out |-> IF result.err = "Ok" THEN result.out ELSE NoOut]]

Completed(op, ix) == Observed(op, ix.result, Runtime(World, ix))

\* One instruction, processed to completion: the accounts after it, and what
\* `last` records of it.
Outcome(op, a) == Completed(op, process_instruction(World, op, a, epoch))

\* The distinct outcomes instruction op has on the requests
Outcomes(op, requests) == {Outcome(op, a) : a \in requests}

\* The ledger takes outcome o
Commit(o) ==
    /\ pool' = o.w.pool
    /\ list' = o.w.list
    /\ stake' = o.w.stake
    /\ token' = o.w.token
    /\ liq' = o.w.liq
    /\ last' = o.last
    /\ epoch' = epoch

Initialize ==
    /\ Explored
    /\ \E o \in Outcomes("Initialize", InitializeArgs) : Commit(o)

CreateValidatorStakeAccount ==
    /\ Explored
    /\ \E o \in Outcomes("CreateValidatorStakeAccount", CreateArgs) : Commit(o)

AddValidatorStakeAccount ==
    /\ Explored
    /\ \E o \in Outcomes("AddValidatorStakeAccount", AddValidatorArgs) : Commit(o)

RemoveValidatorStakeAccount ==
    /\ Explored
    /\ \E o \in Outcomes("RemoveValidatorStakeAccount", RemoveValidatorArgs) : Commit(o)

UpdateListBalance ==
    /\ Explored
    /\ \E o \in Outcomes("UpdateListBalance", UpdateListArgs) : Commit(o)

UpdatePoolBalance ==
    /\ Explored
    /\ \E o \in Outcomes("UpdatePoolBalance", UpdatePoolArgs) : Commit(o)

\* the ledger holds the lamports a deposited stake account brings
Deposit ==
    /\ Explored
    /\ \E o \in Outcomes("Deposit",
                {a \in DepositArgs :
                    PooledLamports(stake) + a.stake_info.data.lamports <= MaxLamports}) :
          Commit(o)

Withdraw ==
    /\ Explored
    /\ \E o \in Outcomes("Withdraw", WithdrawArgs) : Commit(o)

SetStakingAuthority ==
    /\ Explored
    /\ \E o \in Outcomes("SetStakingAuthority", SetStakingAuthArgs) : Commit(o)

SetOwner ==
    /\ Explored
    /\ \E o \in Outcomes("SetOwner", SetOwnerArgs) : Commit(o)

AddLiquidity ==
    /\ Explored
    /\ \E o \in Outcomes("AddLiquidity", AddLiquidityArgs) : Commit(o)

\* Outside the program: the holder of a created stake account funds it,
\* delegates it and hands both authorities to the pool's deposit authority.
PrepareStake ==
    \E v \in Validators, l \in StakeValues :
      LET k == find_stake_address_for_validator(v) IN
        /\ Explored
        /\ stake[k].state # "none"
        /\ stake[k].staker = USER /\ stake[k].withdrawer = USER
        /\ PooledLamports(stake) - stake[k].lamports + l <= MaxLamports
        /\ stake' = [stake EXCEPT ![k] = StakeAccount(l, v, DEPOSIT_AUTHORITY,
                                                      DEPOSIT_AUTHORITY)]
        /\ last' = [Idle EXCEPT !.op = "PrepareStake", !.wrote = TRUE, !.changed = TRUE]
        /\ UNCHANGED <<pool, list, token, epoch, liq>>

\* The ledger moves to the next epoch; delegated stake may earn a reward.
ClockTick ==
    /\ Explored
    /\ epoch < MaxEpoch
    /\ epoch' = epoch + 1
    /\ \E reward \in [DerivedStakeKeys -> {0, 1}] :
          /\ \A k \in DerivedStakeKeys :
                reward[k] = 1 => stake[k].state = "stake" /\ stake[k].lamports > 0
          /\ stake' = [k \in DerivedStakeKeys |->
                          [stake[k] EXCEPT !.lamports = @ + reward[k]]]
          /\ PooledLamports(stake') <= MaxLamports
    /\ last' = [Idle EXCEPT !.op = "ClockTick", !.wrote = TRUE, !.changed = TRUE]
    /\ UNCHANGED <<pool, list, token, liq>>

Next ==
    \/ Initialize
    \/ CreateValidatorStakeAccount
    \/ AddValidatorStakeAccount
    \/ RemoveValidatorStakeAccount
    \/ UpdateListBalance
    \/ UpdatePoolBalance
    \/ Deposit
    \/ Withdraw
    \/ SetStakingAuthority
    \/ SetOwner
    \/ AddLiquidity
    \/ PrepareStake
    \/ ClockTick
    \/ Settle

Spec == Init /\ [][Next]_vars

(***************************************************************************)
(* The same ledger followed one lamport and one share further, from a list *)
(* account sized for one validator: far enough for a pool total that       *)
(* wrapped around to meet a stake total of three lamports and a deposit on *)
(* top of it.                                                              *)
(***************************************************************************)
WideLamports == 4

WideShares == 3

InitWide ==
    /\ pool = ZeroPool
    /\ list = [ZeroList EXCEPT !.max_validators = 1]
    /\ stake = [k \in DerivedStakeKeys |-> NoStake]
    /\ token = [k \in PoolTokenAccounts |-> 0]
    /\ epoch = 0
    /\ liq = [lp_supply |-> 0, reserve |-> 0]
    /\ last = Idle

SettleWide ==
    /\ last.changed
    /\ Supply(token) <= WideShares
    /\ pool.pool_total <= WideShares \/ pool.pool_total = U64_MAX
    /\ pool.stake_total <= WideShares \/ pool.stake_total = U64_MAX
    /\ last' = Idle
    /\ UNCHANGED <<pool, list, stake, token, epoch, liq>>

DepositWide ==
    /\ Explored
    /\ \E o \in Outcomes("Deposit",
                {a \in DepositArgs :
                    PooledLamports(stake) + a.stake_info.data.lamports <= WideLamports}) :
          Commit(o)

PrepareStakeWide ==
    \E v \in Validators, l \in StakeValues :
      LET k == find_stake_address_for_validator(v) IN
        /\ Explored
        /\ stake[k].state # "none"
        /\ stake[k].staker = USER /\ stake[k].withdrawer = USER
        /\ PooledLamports(stake) - stake[k].lamports + l <= WideLamports
        /\ stake' = [stake EXCEPT ![k] = StakeAccount(l, v, DEPOSIT_AUTHORITY,
                                                      DEPOSIT_AUTHORITY)]
        /\ last' = [Idle EXCEPT !.op = "PrepareStake", !.wrote = TRUE, !.changed = TRUE]
        /\ UNCHANGED <<pool, list, token, epoch, liq>>

ClockTickWide ==
    /\ Explored
    /\ epoch < MaxEpoch
    /\ epoch' = epoch + 1
    /\ \E reward \in [DerivedStakeKeys -> {0, 1}] :
          /\ \A k \in DerivedStakeKeys :
                reward[k] = 1 => stake[k].state = "stake" /\ stake[k].lamports > 0
          /\ stake' = [k \in DerivedStakeKeys |->
                          [stake[k] EXCEPT !.lamports = @ + reward[k]]]
          /\ PooledLamports(stake') <= WideLamports
    /\ last' = [Idle EXCEPT !.op = "ClockTick", !.wrote = TRUE, !.changed = TRUE]
    /\ UNCHANGED <<pool, list, token, liq>>

NextWide ==
    \/ Initialize
    \/ CreateValidatorStakeAccount
    \/ AddValidatorStakeAccount
    \/ RemoveValidatorStakeAccount
    \/ UpdateListBalance
    \/ UpdatePoolBalance
    \/ DepositWide
    \/ Withdraw
    \/ SetStakingAuthority
    \/ SetOwner
    \/ AddLiquidity
    \/ PrepareStakeWide
    \/ ClockTickWide
    \/ SettleWide

SpecWide == InitWide /\ [][NextWide]_vars

(***************************************************************************)
(* Properties                                                              *)
(***************************************************************************)
\* C1: a successful Deposit adds the minted pool_amount to pool_total and the
\* deposited stake value to stake_total (and to the pooled stake accounts),
\* where pool_amount is floor(stakeValue * pool_total / stake_total) when
\* stake_total > 0 and stakeValue otherwise.
C1_DepositTotals ==
    [][(last'.op = "Deposit" /\ last'.err = "Ok") =>
          LET stakeValue == last'.out.stake_lamports
              pool_amount == last'.out.pool_amount
          IN  /\ PooledLamports(stake') = PooledLamports(stake) + stakeValue
              /\ pool'.pool_total = pool.pool_total + pool_amount
              /\ pool'.stake_total = pool.stake_total + stakeValue
              /\ pool_amount = IF pool.stake_total > 0
                               THEN (stakeValue * pool.pool_total) \div pool.stake_total
                               ELSE stakeValue]_vars

\* C2: a successful Deposit mints pool_amount - fee_amount to the depositor's
\* token account and fee_amount = floor(pool_amount * numerator / denominator)
\* to the owner's fee account, pool_amount in all; with totals 1000 / 2000, a
\* fee of 1/100 and a stake value of 200 the depositor gets 99 and the owner 1.
C2_DepositMint ==
    Explored =>
    /\  \A a \in DepositArgs :
            LET ix == process_instruction(World, "Deposit", a, epoch)
                w == Runtime(World, ix)
                pool_amount == ix.result.out.pool_amount
                fee_amount == (pool_amount * pool.fee.numerator) \div pool.fee.denominator
            IN  ix.returned = "Ok" =>
                  /\ a.dest_user_info # pool.owner_fee_account
                  /\ w.token[a.dest_user_info] =
                        token[a.dest_user_info] + (pool_amount - fee_amount)
                  /\ w.token[pool.owner_fee_account] =
                        token[pool.owner_fee_account] + fee_amount
                  /\ Supply(w.token) = Supply(token) + pool_amount
    /\ LET v == ValidatorStakeInfo("v1", 2000, 0)
           w0 == [pool |-> [ZeroPool EXCEPT !.version = PROGRAM_VERSION,
                                            !.owner = OWNER,
                                            !.owner_fee_account = FEE_ACCOUNT,
                                            !.pool_mint = POOL_MINT,
                                            !.token_program_id = TOKEN_PROGRAM,
                                            !.validator_stake_list = LIST_KEY,
                                            !.deposit_bump_seed = 254,
                                            !.withdraw_bump_seed = 255,
                                            !.pool_total = 1000,
                                            !.stake_total = 2000,
                                            !.fee = Fee(1, 100)],
                  list |-> [version |-> VALIDATOR_STAKE_LIST_VERSION, validators |-> <<v>>,
                           max_validators |-> MAX_VALIDATORS],
                  stake |-> [k \in DerivedStakeKeys |->
                                IF k = find_stake_address_for_validator("v1")
                                THEN StakeAccount(2000, "v1", WITHDRAW_AUTHORITY,
                                                  WITHDRAW_AUTHORITY)
                                ELSE NoStake],
                  token |-> [k \in PoolTokenAccounts |-> IF k = USER_TOKEN THEN 1000 ELSE 0],
                  liq |-> [lp_supply |-> 0, reserve |-> 0]]
           b0 == CHOOSE b \in DepositBase : b.stake_info.data.voter = "v1"
           a0 == [b0 EXCEPT !.stake_info = UserStake(200, "v1", DEPOSIT_AUTHORITY)]
           r == process_deposit(w0, a0, 0)
       IN  /\ r.err = "Ok"
           /\ r.w.token[USER_TOKEN] = 1000 + 99
           /\ r.w.token[FEE_ACCOUNT] = 1

\* a Deposit was accepted that paid shares to both the depositor and the owner
C2_Witness ==
    /\ last.op = "Deposit" /\ last.err = "Ok"
    /\ last.out.fee_amount > 0 /\ last.out.user_amount > 0
    /\ token[FEE_ACCOUNT] > 0 /\ token[USER_TOKEN] > 0

\* C3: right after a successful Deposit of stakeValue lamports, a Withdraw of
\* the shares the depositor received hands out at most stakeValue lamports.
C3_RoundTrip ==
    (last.op = "Deposit" /\ last.err = "Ok") =>
        \A b \in WithdrawBase :
            LET r == process_withdraw(World, last.out.user_amount, b, epoch)
            IN  r.err = "Ok" => r.out.received <= last.out.stake_lamports

\* C4: a successful Withdraw(shareAmount) splits exactly
\* floor(shareAmount * stake_total / pool_total) lamports off the validator's
\* pooled stake account, burns exactly shareAmount shares, lowers pool_total
\* by shareAmount and stake_total by the lamports, and neither total wraps
\* around below zero.
C4_WithdrawExact ==
    [][(last'.op = "Withdraw" /\ last'.err = "Ok") =>
          LET shareAmount == last'.out.pool_amount
              lamports == IF pool.pool_total > 0
                          THEN (shareAmount * pool.stake_total) \div pool.pool_total
                          ELSE shareAmount
              key == find_stake_address_for_validator(last'.out.validator)
          IN  /\ last'.out.received = lamports
              /\ stake'[key].lamports = stake[key].lamports - lamports
              /\ Supply(token') = Supply(token) - shareAmount
              /\ shareAmount <= pool.pool_total
              /\ lamports <= pool.stake_total
              /\ pool'.pool_total = pool.pool_total - shareAmount
              /\ pool'.stake_total = pool.stake_total - lamports]_vars

\* C5: an instruction presented a wrong authority handle (deposit or withdraw
\* authority of AddValidator, RemoveValidator, Deposit, Withdraw,
\* SetStakingAuthority; the LP-mint authority of AddLiquidity) fails with
\* InvalidProgramAddress although every other field is valid, and changes
\* nothing.
C5_WrongAuthority ==
    Explored =>
      /\ \A op \in {"AddValidatorStakeAccount", "Deposit"} : \A a \in ArgsOf(op) :
            LET good == [a EXCEPT !.withdraw_info = WITHDRAW_AUTHORITY,
                                  !.deposit_info = DEPOSIT_AUTHORITY]
                ix == process_instruction(World, op, a, epoch)
            IN  (a # good /\ process_instruction(World, op, good, epoch).returned = "Ok") =>
                    /\ ix.result.err = "InvalidProgramAddress"
                    /\ Runtime(World, ix) = World
      /\ \A op \in {"RemoveValidatorStakeAccount", "Withdraw", "SetStakingAuthority"} :
            \A a \in ArgsOf(op) :
            LET good == [a EXCEPT !.withdraw_info = WITHDRAW_AUTHORITY]
                ix == process_instruction(World, op, a, epoch)
            IN  (a # good /\ process_instruction(World, op, good, epoch).returned = "Ok") =>
                    /\ ix.result.err = "InvalidProgramAddress"
                    /\ Runtime(World, ix) = World
      /\ \A a \in AddLiquidityArgs :
            LET good == [a EXCEPT !.metalp_mint_withdraw_authority =
                                     MintAuthority(a.metalp_token_mint_account)]
                ix == process_instruction(World, "AddLiquidity", a, epoch)
            IN  (a # good /\ good \in AddLiquidityBase /\ is_initialized(pool)) =>
                    /\ ix.result.err = "InvalidProgramAddress"
                    /\ Runtime(World, ix) = World

\* C6: AddValidator, RemoveValidator, SetStakingAuthority and SetOwner
\* succeed only when the owner handle signed and is the pool's owner;
\* otherwise they change nothing, and fail with SignatureMissing or WrongOwner
\* where the same request from the owner would have succeeded.
C6_OwnerOnly ==
    Explored =>
      \A op \in {"AddValidatorStakeAccount", "RemoveValidatorStakeAccount",
                 "SetStakingAuthority", "SetOwner"} :
        \A a \in ArgsOf(op) :
          LET ix == process_instruction(World, op, a, epoch)
              genuine == a.owner_info.is_signer /\ a.owner_info.key = pool.owner
              asOwner == [a EXCEPT !.owner_info = Signed(pool.owner)]
          IN  /\ ix.returned = "Ok" => genuine
              /\ ~genuine => Runtime(World, ix) = World
              /\ (~genuine /\ process_instruction(World, op, asOwner, epoch).returned = "Ok")
                    => ix.result.err \in {"SignatureMissing", "WrongOwner"}

\* a request the owner could have made was rejected for coming from another signer
C6_Witness ==
    /\ last.op = "AddValidatorStakeAccount" /\ last.err = "WrongOwner"
    /\ \E a \in AddValidatorBase :
          /\ a.owner_info.key # pool.owner
          /\ process_instruction(World, last.op, a, epoch).result.err = "WrongOwner"
          /\ process_instruction(World, last.op,
                                 [a EXCEPT !.owner_info = Signed(pool.owner)],
                                 epoch).returned = "Ok"

\* C7: a step whose handler returned an error leaves every account as it was,
\* also when the handler had already invoked another program or written a
\* record before it failed.
C7_NoPartialEffect ==
    [][last'.err # "Ok" => UNCHANGED <<pool, list, stake, token, liq>>]_vars

\* an instruction failed after its handler had already written
C7_Witness ==
    /\ last.err # "Ok" /\ last.wrote /\ ~last.changed
    /\ last.op \in {"AddValidatorStakeAccount", "Deposit"}

\* C8: AddValidator, RemoveValidator, Deposit and Withdraw succeed only while
\* the pool's last_update_epoch is the current epoch; with a stale pool they
\* change nothing, and fail with StakeListAndPoolOutOfDate where the request
\* would have succeeded on an up-to-date pool.
C8_EpochGate ==
    Explored =>
      \A op \in {"AddValidatorStakeAccount", "RemoveValidatorStakeAccount",
                 "Deposit", "Withdraw"} :
        \A a \in ArgsOf(op) :
          LET ix == process_instruction(World, op, a, epoch)
              fresh == [World EXCEPT !.pool.last_update_epoch = epoch]
          IN  /\ ix.returned = "Ok" => pool.last_update_epoch = epoch
              /\ pool.last_update_epoch # epoch => Runtime(World, ix) = World
              /\ (/\ pool.last_update_epoch # epoch
                  /\ process_instruction(fresh, op, a, epoch).returned = "Ok")
                    => ix.result.err = "StakeListAndPoolOutOfDate"

\* a Withdraw was rejected because the pool had not been updated this epoch
C8_Witness ==
    /\ last.op = "Withdraw" /\ last.err = "StakeListAndPoolOutOfDate"
    /\ pool.last_update_epoch < epoch
    /\ Supply(token) > 0

\* C9: UpdatePoolBalance fails with StakeListOutOfDate, changing nothing, when
\* some list entry was not refreshed this epoch; otherwise (also with an empty
\* list) it sets stake_total to the sum of the entries' balances and
\* last_update_epoch to the current epoch, and leaves pool_total, the rest of
\* the pool record and the list as they were.
C9_UpdatePool ==
    (Explored /\ is_initialized(pool)) =>
      \A a \in UpdatePoolArgs :
        a.validator_stake_list_info = pool.validator_stake_list =>
          LET ix == process_instruction(World, "UpdatePoolBalance", a, epoch)
              w == Runtime(World, ix)
              n == Len(list.validators)
              balance(i) == IF i <= n THEN list.validators[i].balance ELSE 0
          IN  /\ n <= 3
              /\ IF \E i \in 1..n : list.validators[i].last_update_epoch # epoch
                 THEN ix.result.err = "StakeListOutOfDate" /\ w = World
                 ELSE /\ ix.returned = "Ok"
                      /\ w.pool = [pool EXCEPT
                                      !.stake_total = balance(1) + balance(2) + balance(3),
                                      !.last_update_epoch = epoch]
                      /\ w.pool.pool_total = pool.pool_total
                      /\ w.list = list
                      /\ [w EXCEPT !.pool = pool] = World

\* UpdatePoolBalance summed two refreshed entries into a new stake_total
C9_Witness ==
    /\ last.op = "UpdatePoolBalance" /\ last.err = "Ok" /\ last.changed
    /\ Len(list.validators) = 2
    /\ list.validators[1].balance > 0 /\ list.validators[2].balance > 0
    /\ pool.stake_total = list.validators[1].balance + list.validators[2].balance
    /\ pool.last_update_epoch = epoch /\ epoch > 0

\* C10: AddValidator for a validator that is already in the list mints
\* nothing and changes nothing, and fails with ValidatorAlreadyAdded when the
\* request is otherwise well formed.
C10_AlreadyAdded ==
    Explored =>
      \A a \in AddValidatorArgs :
        LET account == AccountOf(World, a.stake_account_info)
            ix == process_instruction(World, "AddValidatorStakeAccount", a, epoch)
        IN  (account.state = "stake" /\ contains(list, account.voter)) =>
              /\ ix.returned # "Ok"
              /\ ix.result.w.token = token
              /\ Runtime(World, ix) = World
              /\ (/\ a \in AddValidatorBase
                  /\ a.owner_info.key = pool.owner
                  /\ pool.last_update_epoch = epoch)
                    => ix.result.err = "ValidatorAlreadyAdded"

\* the owner asked to add a validator that was in the list
C10_Witness ==
    /\ last.op = "AddValidatorStakeAccount" /\ last.err = "ValidatorAlreadyAdded"
    /\ Len(list.validators) > 0 /\ ~last.changed

\* C11: in every reachable state the validator list holds at most one entry
\* per validator.
C11_OneEntryPerValidator ==
    \A i, j \in DOMAIN list.validators :
        list.validators[i].validator_account = list.validators[j].validator_account
            => i = j

\* both validators are listed, one of them refreshed after the other was added
C11_Witness ==
    /\ Len(list.validators) = 2
    /\ last.op = "UpdateListBalance" /\ last.err = "Ok" /\ last.changed

\* C12: after a successful UpdateListBalance every entry it refreshed carries
\* the lamports of the stake account derived for the entry's validator and
\* the pool; a stake account at any other address cannot change an entry.
C12_DerivedBalanceOnly ==
    [][(last'.op = "UpdateListBalance" /\ last'.err = "Ok") =>
          /\ Len(list'.validators) = Len(list.validators)
          /\ \A i \in DOMAIN list.validators :
                list'.validators[i] # list.validators[i] =>
                    list'.validators[i].balance =
                        stake'[find_stake_address_for_validator(
                                   list'.validators[i].validator_account)].lamports]_vars

\* C13: a successful UpdateListBalance changes balance and last_update_epoch
\* only of entries that are stale and whose validator one of the supplied
\* accounts is delegated to, and sets their epoch to the current one; every
\* other entry, the length of the list, the entries' validators and the pool
\* record stay as they were; when no entry is stale the call succeeds and
\* writes nothing.
C13_UpdateListFrame ==
    (Explored /\ is_initialized(list)) =>
      \A a \in UpdateListBase \cup UpdateListForeign :
        LET ix == process_instruction(World, "UpdateListBalance", a, epoch)
            w == Runtime(World, ix)
            accounts == a.validator_stake_accounts
            named(record) ==
                \E j \in DOMAIN accounts :
                    LET account == AccountOf(World, accounts[j])
                    IN  account.state = "stake" /\ account.voter = record.validator_account
            stale(record) == record.last_update_epoch < epoch
        IN  /\ ix.returned = "Ok" =>
                /\ w.pool = pool /\ w.stake = stake /\ w.token = token /\ w.liq = liq
                /\ Len(w.list.validators) = Len(list.validators)
                /\ w.list.version = list.version
                /\ \A i \in DOMAIN list.validators :
                      /\ w.list.validators[i].validator_account
                            = list.validators[i].validator_account
                      /\ IF stale(list.validators[i]) /\ named(list.validators[i])
                         THEN w.list.validators[i].last_update_epoch = epoch
                         ELSE w.list.validators[i] = list.validators[i]
            /\ (\A i \in DOMAIN list.validators : ~stale(list.validators[i])) =>
                  /\ ix.returned = "Ok"
                  /\ ix.result.w = World

\* of two stale entries, UpdateListBalance refreshed the one that was named
C13_Witness ==
    /\ last.op = "UpdateListBalance" /\ last.err = "Ok" /\ last.changed
    /\ \E i, j \in DOMAIN list.validators :
          /\ list.validators[i].last_update_epoch = epoch
          /\ list.validators[j].last_update_epoch < epoch

\* C14: for every fee schedule with numerator <= denominator and every pool
\* amount the fee is at most the amount, and 0 when the numerator is 0; so in
\* every pool the fee of a Deposit never exceeds the minted amount and the
\* depositor receives pool_amount - fee_amount.  (A schedule of 0/0 passes
\* Initialize; for it the fee computation fails and no fee results.)
MaxFeeTerm == 3

FeeSchedules ==
    {Fee(n, d) : n \in 0..MaxFeeTerm, d \in 0..MaxFeeTerm}
    \cup {Fee(0, 100), Fee(1, 100), Fee(100, 100), Fee(U64_MAX, U64_MAX)}

FeeAmounts == 0..MaxFeeTerm \cup {100, 200, U64_MAX - 1, U64_MAX}

C15_FeeBounded ==
    /\ []((is_initialized(pool) => pool.fee.numerator <= pool.fee.denominator)
          /\ (Explored =>
                \A a \in InitializeArgs :
                    a.fee.numerator > a.fee.denominator =>
                        LET ix == process_instruction(World, "Initialize", a, epoch)
                            valid == process_instruction(World, "Initialize",
                                                         [a EXCEPT !.fee = Fee(1, 2)], epoch)
                        IN  /\ ix.returned # "Ok"
                            /\ valid.returned = "Ok" => ix.returned = "FeeTooHigh"))
    /\ [][is_initialized(pool) => pool'.fee = pool.fee]_vars

\* an Initialize was rejected for its fee
C15_Witness ==
    last.op = "Initialize" /\ last.err = "FeeTooHigh"

\* C16: Initialize on an initialized pool record or an initialized list record
\* is rejected and changes nothing, with AlreadyInUse when the owner signed;
\* an initialized pool stays initialized and keeps its pool_mint, token
\* program id, validator list id and bump seeds.
C16_CreatedOnce ==
    /\ [](Explored =>
            \A a \in InitializeArgs :
              LET rejected(w) ==
                      LET ix == process_instruction(w, "Initialize", a, epoch)
                      IN  /\ ix.returned # "Ok"
                          /\ Runtime(w, ix) = w
                          /\ a.owner_info.is_signer => ix.returned = "AlreadyInUse"
              IN  /\ is_initialized(pool) =>
                        rejected(World) /\ rejected([World EXCEPT !.list = ZeroList])
                  /\ is_initialized(list) =>
                        rejected(World) /\ rejected([World EXCEPT !.pool = ZeroPool]))
    /\ [][is_initialized(pool) =>
            /\ is_initialized(pool')
            /\ pool'.pool_mint = pool.pool_mint
            /\ pool'.token_program_id = pool.token_program_id
            /\ pool'.validator_stake_list = pool.validator_stake_list
            /\ pool'.deposit_bump_seed = pool.deposit_bump_seed
            /\ pool'.withdraw_bump_seed = pool.withdraw_bump_seed]_vars

\* an Initialize was rejected because the pool already exists
C16_Witness ==
    last.op = "Initialize" /\ last.err = "AlreadyInUse" /\ is_initialized(pool)

\* C17: Initialize succeeds only if the owner signed, both records are
\* rent-exempt and uninitialized, the owner-fee account's mint is the pool
\* mint and the mint's authority is the derived withdraw authority; a request
\* that is otherwise in order fails with WrongAccountMint on another mint and
\* with WrongMintingAuthority on another mint authority.  On success the pool
\* record has the signer as owner, the given fee and accounts, the highest
\* off-curve bump seeds, last_update_epoch = the current epoch and totals of
\* zero, and the list is initialized and empty.
C17_Initialize ==
    Explored =>
      \A a \in InitializeArgs :
        LET ix == process_instruction(World, "Initialize", a, epoch)
            w == Runtime(World, ix)
            in_order ==
                /\ a.owner_info.is_signer
                /\ ~is_initialized(pool) /\ ~is_initialized(list)
                /\ a.pool_rent_exempt /\ a.list_rent_exempt
                /\ a.fee.numerator <= a.fee.denominator
                /\ AccountOwner(a.owner_fee_info) = a.token_program_info
                /\ AccountOwner(a.pool_mint_info) = a.token_program_info
            same_mint == TokenAccountMint(a.owner_fee_info) = a.pool_mint_info
            authority == MintAuthority(a.pool_mint_info) = "pda_withdraw_255"
            canonical(authority_type, bump_seed) ==
                /\ bump_seed \in BumpSeeds
                /\ ~OnCurve(authority_type, bump_seed)
                /\ \A c \in BumpSeeds : c > bump_seed => OnCurve(authority_type, c)
        IN  /\ ix.returned = "Ok" <=> (in_order /\ same_mint /\ authority)
            /\ (in_order /\ ~same_mint) => ix.returned = "WrongAccountMint"
            /\ (in_order /\ same_mint /\ ~authority) => ix.returned = "WrongMintingAuthority"
            /\ ix.returned = "Ok" =>
                  /\ w.pool.version > 0
                  /\ w.pool.owner = a.owner_info.key
                  /\ w.pool.fee = a.fee
                  /\ w.pool.pool_mint = a.pool_mint_info
                  /\ w.pool.owner_fee_account = a.owner_fee_info
                  /\ w.pool.token_program_id = a.token_program_info
                  /\ w.pool.validator_stake_list = a.validator_stake_list_info
                  /\ canonical(AUTHORITY_DEPOSIT, w.pool.deposit_bump_seed)
                  /\ canonical(AUTHORITY_WITHDRAW, w.pool.withdraw_bump_seed)
                  /\ w.pool.last_update_epoch = epoch
                  /\ w.pool.pool_total = 0 /\ w.pool.stake_total = 0
                  /\ w.list.version > 0 /\ w.list.validators = <<>>
                  /\ w.stake = stake /\ w.token = token /\ w.liq = liq

\* a pool was created in an epoch after the first
C17_Witness ==
    last.op = "Initialize" /\ last.err = "Ok" /\ pool.last_update_epoch = 1

\* C18: an addition that overflows 64 bits is fatal with CalculationFailure
\* and never wraps: the additions to pool_total and stake_total of
\* AddValidatorStakeAccount and Deposit, and the running sum of
\* UpdatePoolBalance.
C18_OverflowFatal ==
    Explored =>
      /\ \A a \in AddValidatorArgs \cup DepositArgs :
            LET op == IF a \in DepositArgs THEN "Deposit" ELSE "AddValidatorStakeAccount"
                ix == process_instruction(World, op, a, epoch)
                stake_lamports ==
                    AccountOf(World, IF a \in DepositArgs THEN a.stake_info
                                     ELSE a.stake_account_info).lamports
                pool_amount == calc_pool_deposit_amount(pool, stake_lamports)
            IN  (/\ pool_amount # None
                 /\ \/ pool.pool_total + pool_amount > U64_MAX
                    \/ pool.stake_total + stake_lamports > U64_MAX)
                => ix.returned \notin {"Ok", "ProgramFailedToComplete"}
      /\ \A a \in UpdatePoolArgs :
            LET ix == process_instruction(World, "UpdatePoolBalance", a, epoch)
                n == Len(list.validators)
                balance(i) == IF i <= n THEN list.validators[i].balance ELSE 0
            IN  balance(1) + balance(2) > U64_MAX
                => ix.returned \notin {"Ok", "ProgramFailedToComplete"}

\* C19: RemoveValidatorStakeAccount is rejected when the stake account's
\* validator is not in the list, with ValidatorNotFound when the request
\* would succeed were the validator listed; on success both authorities of
\* the stake account are the new authority, exactly
\* calc_pool_withdraw_amount(stakeValue) shares are burned, exactly the
\* validator's entry leaves the list, and pool_total and stake_total go down
\* by the burned shares and by stakeValue, neither below zero.
C19_RemoveValidator ==
    (Explored /\ is_initialized(pool)) =>
      \A a \in RemoveValidatorArgs :
        LET ix == process_instruction(World, "RemoveValidatorStakeAccount", a, epoch)
            w == Runtime(World, ix)
            account == AccountOf(World, a.stake_account_info)
            validator == account.voter
            stakeValue == account.lamports
            token_amount == calc_pool_withdraw_amount(pool, stakeValue)
            listed == [World EXCEPT !.list.validators =
                          Append(@, ValidatorStakeInfo(validator, stakeValue, epoch))]
            others == SelectSeq(list.validators,
                                LAMBDA item : item.validator_account # validator)
        IN  /\ (account.state = "stake" /\ ~contains(list, validator)) =>
                  /\ ix.returned # "Ok"
                  /\ process_instruction(listed, "RemoveValidatorStakeAccount",
                                         a, epoch).returned = "Ok"
                        => ix.returned = "ValidatorNotFound"
            /\ ix.returned = "Ok" =>
                  /\ contains(list, validator)
                  /\ a.stake_account_info.key = find_stake_address_for_validator(validator)
                  /\ w.stake = [stake EXCEPT ![a.stake_account_info.key] =
                                   [@ EXCEPT !.staker = a.new_stake_authority_info,
                                             !.withdrawer = a.new_stake_authority_info]]
                  /\ w.token = [token EXCEPT ![a.burn_from_info] = @ - token_amount]
                  /\ token_amount <= token[a.burn_from_info]
                  /\ w.list = [list EXCEPT !.validators = others]
                  /\ Len(others) = Len(list.validators) - 1
                  /\ w.pool = [pool EXCEPT !.pool_total = @ - token_amount,
                                           !.stake_total = @ - stakeValue]
                  /\ w.pool.pool_total >= 0 /\ w.pool.stake_total >= 0

\* C20: AddLiquidity(amount) by a user who holds the amount succeeds, moves the
\* amount into the reserve and mints floor(amount * lpSupply / reserveBalance)
\* LP shares, computed from the supply and the reserve before the transfer, and
\* exactly amount whenever lpSupply = 0 (500 into an empty pool mints 500, then
\* 250 against reserve 500 and supply 500 mints 250).
SpecLpShares(amount, lpSupply, reserveBalance) ==
    IF lpSupply = 0 THEN amount ELSE (amount * lpSupply) \div reserveBalance

C20_AddLiquidityMints ==
    (Explored /\ is_initialized(pool)) =>
       /\ \A a \in AddLiquidityBase :
            LET ix == process_instruction(World, "AddLiquidity", a, epoch)
                w == Runtime(World, ix)
            IN  a.amount <= a.user_wsol_balance =>
                  /\ ix.returned = "Ok"
                  /\ w.liq.reserve = liq.reserve + a.amount
                  /\ w.liq.lp_supply =
                        liq.lp_supply + SpecLpShares(a.amount, liq.lp_supply, liq.reserve)
       /\ shares_from_value(500, 0, 0) = 500
       /\ shares_from_value(250, 500, 500) = 250
       /\ \A amount \in 1..MaxLamports, lpSupply \in 0..MaxLamports,
             reserveBalance \in 0..MaxLamports :
               (lpSupply = 0 \/ reserveBalance > 0) =>
                  shares_from_value(amount, reserveBalance, lpSupply)
                     = SpecLpShares(amount, lpSupply, reserveBalance)

\* C21: AddLiquidity with amount > 0, a source account holding at least the
\* amount, and the reserve account and LP mint the token program owns succeeds,
\* and the reserve has grown by exactly the amount taken from the source.
C21_AddLiquiditySucceeds ==
    (Explored /\ is_initialized(pool)) =>
       \A a \in AddLiquidityBase :
          LET ix == process_instruction(World, "AddLiquidity", a, epoch)
              w == Runtime(World, ix)
          IN  (/\ a.amount > 0
               /\ a.user_wsol_balance >= a.amount
               /\ AccountOwner(a.metalp_token_mint_account) = TOKEN_PROGRAM
               /\ AccountOwner(a.liq_pool_wsol_dest_account) = TOKEN_PROGRAM) =>
                 /\ ix.returned = "Ok"
                 /\ w.liq.reserve - liq.reserve = a.amount

\* C22: AddLiquidity with amount = 0 fails with ZeroAmount whatever the accounts
\* and whatever the pool state (initialized or not), and nothing is transferred
\* or minted.
C22_ZeroAmount ==
    Explored =>
       \A b \in AddLiquidityArgs :
          LET a == [b EXCEPT !.amount = 0]
              ix == process_instruction(World, "AddLiquidity", a, epoch)
          IN  /\ ix.returned = "ZeroAmount"
              /\ Runtime(World, ix) = World
              /\ ix.result.w = World

\* a zero-amount AddLiquidity was rejected on a pool that was never initialized
C22_Witness ==
    /\ last.op = "AddLiquidity" /\ last.err = "ZeroAmount"
    /\ ~last.wrote
    /\ ~is_initialized(pool)

\* C23: Sell(amount) is dispatched by the processor (it is not turned away as
\* an unknown instruction), and when it succeeds the seller's shares went down
\* by the amount and the asset reserve went down by the amount less the fee
\* floor(amount * fee.numerator / fee.denominator).
SellArgs == [amount : 1..MaxShares]

C23_SellDispatched ==
    (Explored /\ is_initialized(pool)) =>
       \A a \in SellArgs :
          LET ix == process_instruction(World, "Sell", a, epoch)
              w == Runtime(World, ix)
              fee == (a.amount * pool.fee.numerator) \div pool.fee.denominator
          IN  /\ ix.returned # "InvalidInstructionData"
              /\ ix.returned = "Ok" =>
                    /\ w.token[USER_TOKEN] = token[USER_TOKEN] - a.amount
                    /\ w.liq.reserve = liq.reserve - (a.amount - fee)

\* C24: SetOwner from the owner fails with WrongAccountMint when the new fee
\* receiver's mint is not the pool's mint, and never succeeds with such an
\* account; on success exactly owner and owner_fee_account are replaced, the
\* rest of the pool record, the validator list and every other account stay as
\* they were, the previous owner no longer succeeds in any owner-gated
\* instruction and the new owner passes the owner check.
OwnerGated ==
    {"AddValidatorStakeAccount", "RemoveValidatorStakeAccount",
     "SetStakingAuthority", "SetOwner"}

C24_SetOwner ==
    (Explored /\ is_initialized(pool)) =>
       \A a \in SetOwnerArgs :
          LET ix == process_instruction(World, "SetOwner", a, epoch)
              w == Runtime(World, ix)
              wrongMint == TokenAccountMint(a.new_owner_fee_info) # pool.pool_mint
          IN  /\ (wrongMint /\ check_owner(pool, a.owner_info) = "Ok") =>
                    ix.returned = "WrongAccountMint"
              /\ wrongMint => (ix.returned # "Ok" /\ w = World)
              /\ ix.returned = "Ok" =>
                    /\ w.pool = [pool EXCEPT !.owner = a.new_owner_info,
                                             !.owner_fee_account = a.new_owner_fee_info]
                    /\ w.list = list /\ w.stake = stake /\ w.token = token /\ w.liq = liq
                    /\ check_owner(w.pool, Signed(a.new_owner_info)) = "Ok"
                    /\ a.new_owner_info # pool.owner =>
                          \A op \in OwnerGated :
                             \A b \in ArgsOf(op) :
                                b.owner_info.key = pool.owner =>
                                   process_instruction(w, op, b, epoch).returned # "Ok"

\* the owner handed the pool over to another key
C24_Witness ==
    /\ last.op = "SetOwner" /\ last.err = "Ok"
    /\ pool.owner = USER
    /\ pool.owner_fee_account = FEE_ACCOUNT

\* C25: CreateValidatorStakeAccount never succeeds on a stake account address
\* that is not the one derived from (validator, pool), and with the genuine
\* system and stake programs it fails with InvalidStakeAccountAddress; whether
\* it succeeds or fails it writes neither the pool record nor the validator
\* list, and neither does SetStakingAuthority.
C25_CreateFrame ==
    Explored =>
       /\ \A a \in CreateArgs :
             LET ix == process_instruction(World, "CreateValidatorStakeAccount", a, epoch)
                 notDerived == a.stake_account_info.key
                                  # find_stake_address_for_validator(a.validator_info)
             IN  /\ notDerived => (ix.returned # "Ok" /\ Runtime(World, ix) = World)
                 /\ (/\ notDerived
                     /\ a.system_program_info = SYSTEM_PROGRAM
                     /\ a.stake_program_info = STAKE_PROGRAM) =>
                        ix.returned = "InvalidStakeAccountAddress"
                 /\ ix.result.w.pool = pool /\ ix.result.w.list = list
       /\ \A a \in SetStakingAuthArgs :
             LET ix == process_instruction(World, "SetStakingAuthority", a, epoch)
             IN  ix.result.w.pool = pool /\ ix.result.w.list = list

\* a request naming another validator's stake address was turned away on an
\* initialized pool
C25_Witness ==
    /\ last.op = "CreateValidatorStakeAccount"
    /\ last.err = "InvalidStakeAccountAddress"
    /\ is_initialized(pool)

C27_EpochsMonotone ==
    /\ [](/\ pool.last_update_epoch <= epoch
          /\ \A i \in DOMAIN list.validators :
                list.validators[i].last_update_epoch <= epoch)
    /\ [][/\ epoch' >= epoch
          /\ pool'.last_update_epoch >= pool.last_update_epoch
          /\ \A i \in DOMAIN list.validators : \A j \in DOMAIN list'.validators :
                list'.validators[j].validator_account = list.validators[i].validator_account
                   => list'.validators[j].last_update_epoch
                         >= list.validators[i].last_update_epoch]_vars

\* the pool and an entry were brought to a later epoch
C27_Witness ==
    /\ last.op = "UpdatePoolBalance" /\ last.err = "Ok"
    /\ epoch > 0
    /\ pool.last_update_epoch = epoch
    /\ Len(list.validators) > 0
    /\ \A i \in DOMAIN list.validators : list.validators[i].last_update_epoch = epoch

\* C28 as stated: refreshing every entry precedes refreshing the pool, which
\* precedes moving value.  Step by step: AddValidatorStakeAccount,
\* RemoveValidatorStakeAccount, Deposit and Withdraw succeed only on a pool whose
\* last_update_epoch is the current epoch; only a successful UpdatePoolBalance
\* ever brings the pool to an epoch, the one it ran in; UpdatePoolBalance
\* succeeds only when every entry of the list carries the current epoch; and
\* only a successful UpdateListBalance ever brings an entry to an epoch, the
\* one it ran in, while a new entry only comes from a successful
\* AddValidatorStakeAccount.
ValueMoving ==
    {"AddValidatorStakeAccount", "RemoveValidatorStakeAccount", "Deposit", "Withdraw"}

RefreshOrder(bringCurrent) ==
    /\ (last'.op \in ValueMoving /\ last'.err = "Ok") =>
          pool.last_update_epoch = epoch
    /\ pool'.last_update_epoch # pool.last_update_epoch =>
          /\ last'.op \in bringCurrent /\ last'.err = "Ok"
          /\ pool'.last_update_epoch = epoch
    /\ (last'.op = "UpdatePoolBalance" /\ last'.err = "Ok") =>
          \A i \in DOMAIN list.validators :
             list.validators[i].last_update_epoch = epoch
    /\ \A j \in DOMAIN list'.validators :
          LET new == list'.validators[j]
              old == SelectSeq(list.validators,
                               LAMBDA item : item.validator_account = new.validator_account)
          IN  /\ old = <<>> =>
                    /\ last'.op = "AddValidatorStakeAccount" /\ last'.err = "Ok"
                    /\ new.last_update_epoch = epoch
              /\ (old # <<>> /\ new.last_update_epoch # old[1].last_update_epoch) =>
                    /\ last'.op = "UpdateListBalance" /\ last'.err = "Ok"
                    /\ new.last_update_epoch = epoch

C28_AsStated ==
    [][RefreshOrder({"UpdatePoolBalance"})]_vars

\* C28, amended: as above, except that Initialize also brings the pool to the
\* epoch it ran in, together with an empty list; a pool initialized in an epoch
\* moves value in that epoch without an UpdatePoolBalance.
C28_RefreshOrder ==
    [][/\ RefreshOrder({"UpdatePoolBalance", "Initialize"})
       /\ (last'.op = "Initialize" /\ last'.err = "Ok") =>
             /\ ~is_initialized(pool)
             /\ list'.validators = <<>>]_vars

\* value moved in an epoch the ledger had advanced to, on a pool with a validator
C28_Witness ==
    /\ last.op \in {"Deposit", "Withdraw"} /\ last.err = "Ok"
    /\ epoch > 0
    /\ Len(list.validators) > 0

\* C29: no reachable state of an initialized pool is stuck stale.  Whenever the
\* pool's last_update_epoch is behind the current epoch, one UpdateListBalance
\* carrying the derived stake account of every stale entry succeeds, the
\* UpdatePoolBalance that follows it in the same epoch succeeds and leaves
\* last_update_epoch at the current epoch, and after it no Deposit or Withdraw
\* is rejected for being out of date.
StaleEntries(l, clock_epoch) ==
    SelectSeq(l.validators, LAMBDA item : item.last_update_epoch < clock_epoch)

DerivedOfStale(l, clock_epoch) ==
    [i \in DOMAIN StaleEntries(l, clock_epoch) |->
        Derived(StaleEntries(l, clock_epoch)[i].validator_account)]

C29_BroughtCurrent ==
    (Explored /\ is_initialized(pool) /\ pool.last_update_epoch < epoch) =>
       LET refresh == [validator_stake_list_info |-> pool.validator_stake_list,
                       validator_stake_accounts |-> DerivedOfStale(list, epoch)]
           ix1 == process_instruction(World, "UpdateListBalance", refresh, epoch)
           w1 == Runtime(World, ix1)
       IN  /\ ix1.returned = "Ok"
           /\ \A checks \in BOOLEAN :
                 LET update == [validator_stake_list_info |-> pool.validator_stake_list,
                                overflow_checks |-> checks]
                     ix2 == process_instruction(w1, "UpdatePoolBalance", update, epoch)
                     w2 == Runtime(w1, ix2)
                 IN  /\ ix2.returned = "Ok"
                     /\ w2.pool.last_update_epoch = epoch
                     /\ \A op \in {"Deposit", "Withdraw"} : \A a \in ArgsOf(op) :
                           process_instruction(w2, op, a, epoch).returned
                              # "StakeListAndPoolOutOfDate"

\* a stale pool with a stale entry was brought current
C29_Witness ==
    /\ last.op = "UpdatePoolBalance" /\ last.err = "Ok" /\ last.changed
    /\ epoch > 0 /\ pool.last_update_epoch = epoch
    /\ Len(list.validators) > 0

\* C30 as stated: within one epoch, refreshing a set of validators' stake
\* accounts piece by piece, in either order, leaves the same validator list as
\* one UpdateListBalance carrying them all, and repeating a call changes nothing.
UpdateList(w, accounts) ==
    Runtime(w, process_instruction(w, "UpdateListBalance",
                                   [validator_stake_list_info |-> LIST_KEY,
                                    validator_stake_accounts |-> accounts], epoch))

IncrementalRefresh(accounts) ==
    LET once == UpdateList(World, accounts)
    IN  /\ UpdateList(once, accounts) = once
        /\ Len(accounts) = 2 =>
              /\ UpdateList(UpdateList(World, <<accounts[1]>>), <<accounts[2]>>) = once
              /\ UpdateList(UpdateList(World, <<accounts[2]>>), <<accounts[1]>>) = once

RemovalsOf(a) ==
    {r \in RemoveValidatorArgs :
        /\ r.stake_account_info = a.stake_account_info
        /\ r.burn_from_info = a.dest_user_info
        /\ r.pool_mint_info = a.pool_mint_info}

\* C31: in every pool state, an AddValidatorStakeAccount of a stake account
\* worth L followed at once (same epoch, same value) by the
\* RemoveValidatorStakeAccount of that account burns exactly the shares the
\* add minted and puts pool_total, stake_total and the validator list back to
\* what they were before the add.
C31_AddRemoveInverse ==
    (Explored /\ is_initialized(pool)) =>
      \A a \in AddValidatorArgs :
        LET add == process_instruction(World, "AddValidatorStakeAccount", a, epoch)
            added == Runtime(World, add)
        IN  add.returned = "Ok" =>
              \A r \in RemovalsOf(a) :
                LET remove == process_instruction(added, "RemoveValidatorStakeAccount",
                                                  r, epoch)
                    removed == Runtime(added, remove)
                IN  remove.returned = "Ok" =>
                      /\ remove.result.out.pool_amount = add.result.out.pool_amount
                      /\ removed.token = token
                      /\ removed.pool.pool_total = pool.pool_total
                      /\ removed.pool.stake_total = pool.stake_total
                      /\ removed.list = list

\* the stake account a request hands to the pool
Supplied(op, a) ==
    IF op = "AddValidatorStakeAccount" THEN a.stake_account_info ELSE a.stake_info

\* the ledger with the staker and withdrawer the holder of a stake account
\* outside the pool gave it
Handed(op, a, staker, withdrawer) ==
    LET account == AccountOf(World, Supplied(op, a))
        given == [account EXCEPT !.staker = staker, !.withdrawer = withdrawer]
    IN  IF account.state = "none" \/ account.withdrawer = WITHDRAW_AUTHORITY
        THEN [w |-> World, a |-> a]
        ELSE IF op = "AddValidatorStakeAccount"
        THEN [w |-> SetAccount(World, a.stake_account_info, given), a |-> a]
        ELSE [w |-> World, a |-> [a EXCEPT !.stake_info.data = given]]

\* request a of op on ledger w: no share is minted before both roles of the
\* supplied account are the withdraw authority's (and, in Deposit, before the
\* merge), the withdrawer is reassigned before the staker, and nothing is
\* minted unless the deposit authority held both roles
HandoffFirst(w, op, a) ==
    LET ix == process_instruction(w, op, a, epoch)
        before == AccountOf(w, Supplied(op, a))
        after == AccountOf(ix.result.w, Supplied(op, a))
        minted == ix.result.w.token # w.token
        pooled == a.validator_stake_account_info
    IN  /\ (before.staker # a.deposit_info \/ before.withdrawer # a.deposit_info) =>
              /\ ix.returned # "Ok"
              /\ ~minted
              /\ Runtime(w, ix) = w
        /\ (minted \/ ix.returned = "Ok") =>
              /\ a.deposit_info = DEPOSIT_AUTHORITY
              /\ a.withdraw_info = WITHDRAW_AUTHORITY
              /\ before.staker = DEPOSIT_AUTHORITY
              /\ before.withdrawer = DEPOSIT_AUTHORITY
              /\ IF op = "AddValidatorStakeAccount"
                 THEN /\ after.staker = WITHDRAW_AUTHORITY
                      /\ after.withdrawer = WITHDRAW_AUTHORITY
                 ELSE /\ AccountOf(w, pooled).staker = WITHDRAW_AUTHORITY
                      /\ AccountOf(w, pooled).withdrawer = WITHDRAW_AUTHORITY
                      /\ AccountOf(ix.result.w, pooled).lamports =
                            AccountOf(w, pooled).lamports + before.lamports
        /\ after.staker # before.staker => after.withdrawer = a.withdraw_info

\* C32: AddValidatorStakeAccount and Deposit hand the supplied stake account
\* over before any payout: signing as the deposit authority the processor
\* reassigns first the Withdrawer and then the Staker role to the pool's
\* withdraw authority, and only then merges (Deposit) and mints; when the
\* deposit authority does not hold either role the operation fails with no
\* share minted, and on success both roles belong to the withdraw authority.
C32_HandoffFirst ==
    (Explored /\ is_initialized(pool)) =>
      \A op \in {"AddValidatorStakeAccount", "Deposit"} :
        \A a \in ArgsOf(op) :
          \A staker, withdrawer \in {USER, DEPOSIT_AUTHORITY} :
            LET h == Handed(op, a, staker, withdrawer)
            IN  HandoffFirst(h.w, op, h.a)

\* an add or a deposit has just minted shares for a stake account it took over
C32_Witness ==
    /\ last.op \in {"AddValidatorStakeAccount", "Deposit"}
    /\ last.err = "Ok"
    /\ last.out.pool_amount > 0
    /\ \A k \in DerivedStakeKeys :
          stake[k].state = "stake" => stake[k].withdrawer = WITHDRAW_AUTHORITY

\* the handle of the pooled stake account a Deposit or Withdraw works on
PooledHandle(op, a) ==
    IF op = "Deposit" THEN a.validator_stake_account_info ELSE a.stake_split_from

\* C33: a Deposit or Withdraw on validator v changes, in the validator list,
\* only the balance of v's entry, which becomes the value of v's pooled stake
\* account after the merge or split; every other entry and every entry's
\* last_update_epoch stay as they were.  When v is not listed both fail and
\* change nothing, with ValidatorNotFound unless the request fails the same
\* way with v listed.
C33_ListFrame ==
    (Explored /\ is_initialized(pool)) =>
      \A op \in {"Deposit", "Withdraw"} :
        \A a \in ArgsOf(op) :
          LET ix == process_instruction(World, op, a, epoch)
              w == Runtime(World, ix)
              handle == PooledHandle(op, a)
              validator == get_validator_checked(handle.key, AccountOf(World, handle))
              v == validator.validator
              i == find_mut(list, v)
              listed == [World EXCEPT !.list.validators =
                            Append(@, ValidatorStakeInfo(v, 0, epoch))]
          IN  /\ ix.returned = "Ok" =>
                    /\ validator.err = "Ok"
                    /\ i # 0
                    /\ w.list = [list EXCEPT !.validators[i].balance =
                                                AccountOf(w, handle).lamports]
                    /\ \A j \in 1..Len(list.validators) :
                          /\ w.list.validators[j].last_update_epoch =
                                list.validators[j].last_update_epoch
                          /\ j # i => w.list.validators[j] = list.validators[j]
              /\ (validator.err = "Ok" /\ ~contains(list, v)) =>
                    /\ ix.returned # "Ok"
                    /\ ix.result.w = World
                    /\ w = World
                    /\ ix.returned # "ValidatorNotFound" =>
                          process_instruction(listed, op, a, epoch).returned = ix.returned

\* with two validators listed, a deposit or a withdrawal has just changed the
\* balance of one entry
C33_Witness ==
    /\ last.op \in {"Deposit", "Withdraw"}
    /\ last.err = "Ok"
    /\ Len(list.validators) = 2
    /\ \E i \in 1..2 :
          /\ list.validators[i].validator_account = last.out.validator
          /\ list.validators[i].balance =
                stake[find_stake_address_for_validator(last.out.validator)].lamports
          /\ list.validators[i].balance # list.validators[3 - i].balance

(***************************************************************************)
(* Totals against the share supply and the list                            *)
(***************************************************************************)
\* C34: in every reachable state pool_total equals the supply of the pool's
\* share mint: AddValidatorStakeAccount, Deposit, Withdraw and
\* RemoveValidatorStakeAccount move both by the same amount and no other
\* operation moves either.
C34_TotalIsSupply ==
    pool.pool_total = Supply(token)

\* the balances of the entries, added up
RECURSIVE SumBalances(_)
SumBalances(validators) ==
    IF validators = <<>> THEN 0
    ELSE Head(validators).balance + SumBalances(Tail(validators))

\* C35: whenever the pool's last_update_epoch is the current epoch,
\* stake_total is the sum of the balances of the entries of the validator list.
C35_TotalIsSum ==
    pool.last_update_epoch = epoch => pool.stake_total = SumBalances(list.validators)

\* the operations that mint or burn shares
ShareChanging ==
    {"AddValidatorStakeAccount", "Deposit", "Withdraw", "RemoveValidatorStakeAccount"}

\* C36: no share-changing operation dilutes the holders: across a successful
\* AddValidatorStakeAccount, Deposit, Withdraw or RemoveValidatorStakeAccount
\* stake_total_after * pool_total_before >= stake_total_before * pool_total_after.
C36_NoDilution ==
    \A op \in ShareChanging :
      \A a \in ArgsOf(op) :
        LET ix == process_instruction(World, op, a, epoch)
            after == Runtime(World, ix).pool
        IN  ix.returned = "Ok" =>
              after.stake_total * pool.pool_total >= pool.stake_total * after.pool_total

\* C37: AddValidatorStakeAccount, RemoveValidatorStakeAccount, Deposit and
\* Withdraw act only on the pool's own mint: a request whose mint handle is not
\* the stored pool_mint fails, before any stake is merged, split or
\* reassigned, so no pooled stake leaves for shares of another mint.
C37_OnlyPoolMint ==
    (Explored /\ is_initialized(pool)) =>
      \A op \in ShareChanging :
        \A a \in ArgsOf(op) :
          LET ix == process_instruction(World, op, a, epoch)
          IN  a.pool_mint_info # pool.pool_mint =>
                /\ ix.returned # "Ok"
                /\ ix.result.w.stake = stake
                /\ Runtime(World, ix) = World

\* C38: in every reachable state, a pool whose last_update_epoch is the
\* current epoch has a validator list whose every entry has the current epoch
\* as its last_update_epoch.
C38_CurrentPoolCurrentEntries ==
    pool.last_update_epoch = epoch =>
       \A i \in DOMAIN list.validators : list.validators[i].last_update_epoch = epoch

\* in a later epoch the pool is current again over a list of two entries, one
\* of which was added after the other had been refreshed
C38_Witness ==
    /\ epoch > 0
    /\ is_initialized(pool)
    /\ pool.last_update_epoch = epoch
    /\ Len(list.validators) = 2
    /\ last.op = "AddValidatorStakeAccount" /\ last.err = "Ok"

(***************************************************************************)
(* The command-line front end (metacli)                                    *)
(***************************************************************************)
MAX_ACCOUNTS_TO_UPDATE == 10

\* the handle of a validator's vote account: whatever its data decodes to, it
\* is not a delegated stake account
VoteAccount(v) == [key |-> v, data |-> [NoStake EXCEPT !.state = "init"]]

\* slice::chunks
RECURSIVE chunks(_, _)
chunks(s, n) ==
    IF s = <<>> THEN <<>>
    ELSE IF Len(s) <= n THEN <<s>>
    ELSE <<SubSeq(s, 1, n)>> \o chunks(SubSeq(s, n + 1, Len(s)), n)

\* the validator_account of every entry behind epoch, in list order
RECURSIVE accounts_to_update(_, _)
accounts_to_update(validators, epoch_info_epoch) ==
    IF validators = <<>> THEN <<>>
    ELSE IF Head(validators).last_update_epoch >= epoch_info_epoch
    THEN accounts_to_update(Tail(validators), epoch_info_epoch)
    ELSE <<VoteAccount(Head(validators).validator_account)>>
            \o accounts_to_update(Tail(validators), epoch_info_epoch)

\* command_update: the instructions of the transaction it builds, <<>> when it
\* builds none
command_update(pool_data, validator_stake_list_data, epoch_info_epoch) ==
    LET chunked == chunks(accounts_to_update(validator_stake_list_data.validators,
                                             epoch_info_epoch),
                          MAX_ACCOUNTS_TO_UPDATE)
        instructions ==
            [i \in DOMAIN chunked |->
                [op |-> "UpdateListBalance",
                 a |-> [validator_stake_list_info |-> pool_data.validator_stake_list,
                        validator_stake_accounts |-> chunked[i]]]]
    IN  IF instructions = <<>> /\ Len(validator_stake_list_data.validators) > 0
        THEN <<>>
        ELSE Append(instructions,
                    [op |-> "UpdatePoolBalance",
                     a |-> [validator_stake_list_info |-> pool_data.validator_stake_list]])

\* The ledger executes the instructions of a transaction from the i-th on, on
\* a program built with or without overflow checks: all of them or, when one
\* fails, none (start is the ledger before the transaction).
RECURSIVE execute(_, _, _, _, _, _)
execute(start, w, transaction, i, clock_epoch, overflow_checks) ==
    IF i > Len(transaction) THEN [err |-> "Ok", w |-> w]
    ELSE LET request == IF transaction[i].op = "UpdatePoolBalance"
                        THEN [validator_stake_list_info |->
                                 transaction[i].a.validator_stake_list_info,
                              overflow_checks |-> overflow_checks]
                        ELSE transaction[i].a
             ix == process_instruction(w, transaction[i].op, request, clock_epoch)
         IN  IF ix.returned # "Ok" THEN [err |-> ix.returned, w |-> start]
             ELSE execute(start, Runtime(w, ix), transaction, i + 1,
                          clock_epoch, overflow_checks)

\* the ids of the UpdateListBalance requests of a transaction, in order
RECURSIVE RefreshedIds(_, _)
RefreshedIds(transaction, i) ==
    IF i >= Len(transaction) THEN <<>>
    ELSE [j \in DOMAIN transaction[i].a.validator_stake_accounts |->
             transaction[i].a.validator_stake_accounts[j].key]
         \o RefreshedIds(transaction, i + 1)

\* the validators of the entries of l behind clock_epoch, in list order
StaleIds(l, clock_epoch) ==
    LET behind == SelectSeq(l.validators,
                            LAMBDA item : item.last_update_epoch < clock_epoch)
    IN  [j \in DOMAIN behind |-> behind[j].validator_account]

\* C39: whenever the pool is behind the current epoch the update command builds
\* one transaction that refreshes every stale entry exactly once through
\* UpdateListBalance requests of at most 10 ids each, all before a single final
\* UpdatePoolBalance, which it issues also over an empty list; executing the
\* transaction leaves the pool current; and the command issues nothing only
\* when the pool needs no update.
C39_UpdateCommand ==
    (Explored /\ is_initialized(pool)) =>
       LET transaction == command_update(pool, ListOf(World, pool.validator_stake_list),
                                         epoch)
           n == Len(transaction)
       IN  /\ pool.last_update_epoch < epoch =>
                 /\ n > 0
                 /\ transaction[n].op = "UpdatePoolBalance"
                 /\ \A i \in 1..(n - 1) :
                       /\ transaction[i].op = "UpdateListBalance"
                       /\ Len(transaction[i].a.validator_stake_accounts)
                             \in 1..MAX_ACCOUNTS_TO_UPDATE
                 /\ RefreshedIds(transaction, 1) = StaleIds(list, epoch)
                 /\ \A overflow_checks \in BOOLEAN :
                       execute(World, World, transaction, 1, epoch, overflow_checks)
                          .w.pool.last_update_epoch = epoch
           /\ n = 0 => pool.last_update_epoch = epoch

\* sol_to_lamports(1.0) and the rent-exempt minimum of a stake account, on the
\* scale of the model's lamports (the minimum is about 0.002 SOL)
MIN_STAKE_BALANCE == 3

STAKE_RENT_EXEMPTION == 0

\* get_authority_accounts: the stake accounts whose withdrawer is the
\* authority, in any of the orders the node may report them
get_authority_accounts(accounts, authority) ==
    LET found == {k \in DOMAIN accounts : /\ accounts[k].state # "none"
                                          /\ accounts[k].withdrawer = authority}
    IN  {[i \in DOMAIN order |-> [pubkey |-> order[i], lamports |-> accounts[order[i]].lamports]] :
            order \in {o \in [1..Cardinality(found) -> found] :
                          \A i, j \in DOMAIN o : i # j => o[i] # o[j]}}

\* sort_by(|a, b| b.1.lamports.cmp(&a.1.lamports)): stable, highest first
RECURSIVE sort_by_lamports(_)
sort_by_lamports(accounts) ==
    IF accounts = <<>> THEN <<>>
    ELSE LET rest == sort_by_lamports(Tail(accounts))
             x == Head(accounts)
             ahead == SelectSeq(rest, LAMBDA y : y.lamports > x.lamports)
             behind == SelectSeq(rest, LAMBDA y : y.lamports <= x.lamports)
         IN  ahead \o <<x>> \o behind

\* the loop of pick_withdraw_accounts from the i-th account on; the build
\* either panics on the u64 subtraction or wraps
RECURSIVE pick_from(_, _, _, _, _, _)
pick_from(accounts, i, remaining_amount, withdraw_from, min_balance, overflow_checks) ==
    IF i > Len(accounts)
    THEN IF remaining_amount > 0
         THEN [err |-> "NotEnoughStake", withdraw_from |-> <<>>]
         ELSE [err |-> "Ok", withdraw_from |-> withdraw_from]
    ELSE IF accounts[i].lamports <= min_balance
    THEN pick_from(accounts, i + 1, remaining_amount, withdraw_from,
                   min_balance, overflow_checks)
    ELSE LET available_for_withdrawal ==
                 sub_assign(accounts[i].lamports, MIN_STAKE_BALANCE, overflow_checks)
             withdraw_amount ==
                 IF available_for_withdrawal < remaining_amount
                 THEN available_for_withdrawal ELSE remaining_amount
             picked == Append(withdraw_from,
                              [pubkey |-> accounts[i].pubkey,
                               lamports |-> accounts[i].lamports,
                               amount |-> withdraw_amount])
         IN  IF available_for_withdrawal = None
             THEN [err |-> "Panic", withdraw_from |-> <<>>]
             ELSE IF remaining_amount - withdraw_amount = 0
             THEN [err |-> "Ok", withdraw_from |-> picked]
             ELSE pick_from(accounts, i + 1, remaining_amount - withdraw_amount,
                            picked, min_balance, overflow_checks)

pick_withdraw_accounts(accounts, amount, min_balance, overflow_checks) ==
    pick_from(sort_by_lamports(accounts), 1, amount, <<>>, min_balance, overflow_checks)

\* prepare_withdraw_accounts on the accounts as the node reported them
prepare_withdraw_accounts(accounts, amount, overflow_checks) ==
    IF accounts = <<>> THEN [err |-> "NoAccountsFound", withdraw_from |-> <<>>]
    ELSE pick_withdraw_accounts(accounts, amount, STAKE_RENT_EXEMPTION + 1, overflow_checks)

RECURSIVE SumAmounts(_)
SumAmounts(withdraw_from) ==
    IF withdraw_from = <<>> THEN 0
    ELSE Head(withdraw_from).amount + SumAmounts(Tail(withdraw_from))

\* what the accounts can give while each keeps the minimum stake balance
RECURSIVE Coverable(_)
Coverable(accounts) ==
    IF accounts = <<>> THEN 0
    ELSE (IF Head(accounts).lamports > MIN_STAKE_BALANCE
          THEN Head(accounts).lamports - MIN_STAKE_BALANCE ELSE 0)
         + Coverable(Tail(accounts))

\* C40: the selection of withdrawal candidates goes through the pool's stake
\* accounts from the highest balance down and either returns amounts that add
\* up to the requested amount, each at most its account's balance less the
\* minimum stake balance, a subtraction that underflows for no account it
\* considers, or returns an error when the accounts cannot cover the request.
C40_PickWithdrawAccounts ==
    (Explored /\ is_initialized(pool)) =>
      \A accounts \in get_authority_accounts(stake, WITHDRAW_AUTHORITY) :
        \A amount \in 1..MaxLamports, overflow_checks \in BOOLEAN :
          LET picked == prepare_withdraw_accounts(accounts, amount, overflow_checks)
              from == picked.withdraw_from
          IN  /\ picked.err # "Panic"
              /\ picked.err = "Ok" =>
                    /\ SumAmounts(from) = amount
                    /\ \A i \in DOMAIN from :
                          /\ from[i].lamports >= MIN_STAKE_BALANCE
                          /\ from[i].amount <= from[i].lamports - MIN_STAKE_BALANCE
                          /\ i > 1 => from[i - 1].lamports >= from[i].lamports
              /\ picked.err # "Ok" => Coverable(accounts) < amount

====
